---- MODULE Spec2Model ----
(***************************************************************************)
(* Model of the Mobills-Web personal finance application:                  *)
(*   - SmartCategoryManager (src/src/utils/smartCategories.ts)             *)
(*   - FinancialAnalytics   (src/unnamed/part_011)                         *)
(*   - FinancialProvider    (src/src/contexts/FinancialContext.tsx)        *)
(*                                                                         *)
(* Text is a sequence of UTF-16 code units, each written as a string (a    *)
(* combining mark is written "U+0301").  Money is an integer number of     *)
(* cents.  A confidence or a similarity score is the quotient of two       *)
(* integers, kept as the pair <<numerator, denominator>>.                  *)
(***************************************************************************)
EXTENDS Integers, Sequences, FiniteSets, TLC

VARIABLES
    \* ---- SmartCategoryManager ----
    objects,          \* the transaction objects of the application, by reference
    rules,            \* this.rules
    mgrTransactions,  \* this.transactions: references to the historical transactions
    call,             \* the last public method called, with its arguments
    result,           \* what that call returned
    \* ---- calculateSimilarity as a pure function ----
    text1, text2,     \* its arguments
    score,            \* its result
    \* ---- normalizeText as a pure function ----
    normInput,        \* its argument
    normOutput,       \* its result
    normPass,         \* how many times it has been applied: the second time
                      \* to its own first result
    \* ---- FinancialAnalytics ----
    caller,           \* the arrays the caller owns and hands to the constructor
    passed,           \* those arrays as they were when the caller built them
    analytics,        \* whether the FinancialAnalytics has been constructed
    faCall,           \* the last method called on it, with the date it read
    faResult,         \* what that call returned
    \* ---- FinancialProvider (local storage) ----
    accounts,         \* the 'financial-accounts' state
    transactions,     \* the 'financial-transactions' state
    opening,          \* account id -> the balance the account was added with
    nextId,           \* the ids generateId() has handed out so far
    \* ---- the goals, in local storage and hosted ----
    localGoals,       \* the 'financial-goals' state of the FinancialProvider
    hostGoals,        \* the goals state of useFinancialGoals
    \* ---- the hosted (Supabase) hooks ----
    dbBalance,        \* accounts.balance of the account, in the backend
    uiBalance,        \* its balance in the accounts state of useAccounts
    dbTransactions,   \* the rows of the transactions table
    uiTransactions,   \* the transactions state of useTransactions
    calls,            \* the calls of the hooks' functions that have not returned
    dbLog,            \* the statements the backend has carried out, oldest first
    \* ---- MemoryCache ----
    cache,            \* this.cache: the entries of the Map, in insertion order
    clock,            \* Date.now()
    cacheCall,        \* the last method called, with its arguments
    cacheResult,      \* what that call returned
    lastSet           \* key -> the latest set of the key, and whether the key
                      \* has been deleted or evicted since

vars == <<objects, rules, mgrTransactions, call, result, text1, text2, score,
          normInput, normOutput, normPass,
          caller, passed, analytics, faCall, faResult,
          accounts, transactions, opening, nextId, localGoals, hostGoals,
          dbBalance, uiBalance, dbTransactions, uiTransactions, calls, dbLog,
          cache, clock, cacheCall, cacheResult, lastSet>>

catVars == <<objects, rules, mgrTransactions, call, result>>
simVars == <<text1, text2, score>>
normVars == <<normInput, normOutput, normPass>>
faVars  == <<caller, passed, analytics, faCall, faResult>>
locVars == <<accounts, transactions, opening, nextId>>
goalVars == <<localGoals, hostGoals>>
hostVars == <<dbBalance, uiBalance, dbTransactions, uiTransactions, calls, dbLog>>
cacheVars == <<cache, clock, cacheCall, cacheResult, lastSet>>

None == [op |-> "none"]

\* The parts of the application a specification leaves out stay as they are.
CatIdle ==
    /\ objects = <<>> /\ rules = <<>> /\ mgrTransactions = <<>>
    /\ call = None /\ result = None
SimIdle == text1 = <<>> /\ text2 = <<>> /\ score = None
NormIdle == normInput = <<>> /\ normOutput = <<>> /\ normPass = 0
FaIdle ==
    /\ caller = <<>> /\ passed = <<>> /\ analytics = FALSE
    /\ faCall = None /\ faResult = <<>>
LocIdle ==
    accounts = <<>> /\ transactions = <<>> /\ opening = <<>> /\ nextId = 0
GoalIdle == localGoals = <<>> /\ hostGoals = <<>>
HostIdle ==
    /\ dbBalance = 0 /\ uiBalance = 0 /\ dbTransactions = <<>>
    /\ uiTransactions = <<>> /\ calls = <<>> /\ dbLog = <<>>
CacheIdle ==
    /\ cache = <<>> /\ clock = 0 /\ cacheCall = None /\ cacheResult = None
    /\ lastSet = <<>>

(***************************************************************************)
(* Text                                                                    *)
(***************************************************************************)

RECURSIVE Flatten(_)
Flatten(ss) == IF ss = <<>> THEN <<>> ELSE Head(ss) \o Flatten(Tail(ss))

Range(s) == {s[i] : i \in 1..Len(s)}

\* String.prototype.includes: needle occurs as a contiguous run of hay
includes(hay, needle) ==
    \E i \in 0..(Len(hay) - Len(needle)) :
        \A j \in 1..Len(needle) : hay[i + j] = needle[j]

\* Array.prototype.includes
arrayIncludes(arr, x) == \E i \in 1..Len(arr) : arr[i] = x

\* String.prototype.startsWith
startsWith(s, prefix) ==
    Len(s) >= Len(prefix) /\ SubSeq(s, 1, Len(prefix)) = prefix

AsciiUpper == <<"A","B","C","D","E","F","G","H","I","J","K","L","M",
                "N","O","P","Q","R","S","T","U","V","W","X","Y","Z">>
AsciiLower == <<"a","b","c","d","e","f","g","h","i","j","k","l","m",
                "n","o","p","q","r","s","t","u","v","w","x","y","z">>
Digits == {"0","1","2","3","4","5","6","7","8","9"}

\* The accented letters of Portuguese: <<upper, lower, base letter, mark>>
Accented == << <<"Á","á","a","U+0301">>, <<"Â","â","a","U+0302">>,
               <<"Ã","ã","a","U+0303">>, <<"Ç","ç","c","U+0327">>,
               <<"É","é","e","U+0301">>, <<"Ê","ê","e","U+0302">>,
               <<"Í","í","i","U+0301">>, <<"Ó","ó","o","U+0301">>,
               <<"Ô","ô","o","U+0302">>, <<"Õ","õ","o","U+0303">>,
               <<"Ú","ú","u","U+0301">> >>

\* the code units of [̀-ͯ] that the accented letters decompose to
CombiningMarks == {"U+0301", "U+0302", "U+0303", "U+0327"}
\* the code units of \s
Whitespace == {" ", "\t"}
\* the code units of [a-z0-9\s]
Plain == Range(AsciiLower) \cup Digits \cup Whitespace

LowerTable ==
    [c \in Range(AsciiUpper) \cup {Accented[k][1] : k \in 1..Len(Accented)} |->
        IF c \in Range(AsciiUpper)
        THEN AsciiLower[CHOOSE k \in 1..Len(AsciiUpper) : AsciiUpper[k] = c]
        ELSE Accented[CHOOSE k \in 1..Len(Accented) : Accented[k][1] = c][2]]

NfdTable ==
    [c \in {Accented[k][2] : k \in 1..Len(Accented)} |->
        <<Accented[CHOOSE k \in 1..Len(Accented) : Accented[k][2] = c][3],
          Accented[CHOOSE k \in 1..Len(Accented) : Accented[k][2] = c][4]>>]

\* .toLowerCase()
toLowerCase(s) ==
    [i \in 1..Len(s) |-> IF s[i] \in DOMAIN LowerTable THEN LowerTable[s[i]] ELSE s[i]]

\* .normalize('NFD'): an accented letter becomes its base letter and the mark
normalizeNFD(s) ==
    Flatten([i \in 1..Len(s) |->
                IF s[i] \in DOMAIN NfdTable THEN NfdTable[s[i]] ELSE <<s[i]>>])

\* .replace(/[̀-ͯ]/g, '')
removeAccents(s) == SelectSeq(s, LAMBDA c : c \notin CombiningMarks)

\* .replace(/[^a-z0-9\s]/g, ' ')
removeSpecial(s) == [i \in 1..Len(s) |-> IF s[i] \in Plain THEN s[i] ELSE " "]

\* .replace(/\s+/g, ' '): every maximal run of whitespace becomes one space
RECURSIVE normalizeSpaces(_)
normalizeSpaces(s) ==
    IF s = <<>> THEN <<>>
    ELSE IF Head(s) \in Whitespace
         THEN IF Len(s) > 1 /\ s[2] \in Whitespace
              THEN normalizeSpaces(Tail(s))
              ELSE <<" ">> \o normalizeSpaces(Tail(s))
         ELSE <<Head(s)>> \o normalizeSpaces(Tail(s))

RECURSIVE trimStart(_)
trimStart(s) ==
    IF s # <<>> /\ Head(s) \in Whitespace THEN trimStart(Tail(s)) ELSE s

RECURSIVE trimEnd(_)
trimEnd(s) ==
    IF s # <<>> /\ s[Len(s)] \in Whitespace
    THEN trimEnd(SubSeq(s, 1, Len(s) - 1)) ELSE s

\* .trim()
trim(s) == trimEnd(trimStart(s))

normalizeTextSpacesFirst(text) ==
    trim(removeSpecial(normalizeSpaces(removeAccents(normalizeNFD(toLowerCase(text))))))

normalizeText(text) ==
    trim(normalizeSpaces(removeSpecial(removeAccents(normalizeNFD(toLowerCase(text))))))

\* the index of the first space of s, 0 when it has none
RECURSIVE firstSpace(_, _)
firstSpace(s, i) ==
    IF i > Len(s) THEN 0 ELSE IF s[i] = " " THEN i ELSE firstSpace(s, i + 1)

\* String.prototype.split(' '): the pieces between the spaces; the empty
\* text splits into one empty piece
RECURSIVE split(_)
splitAt(s, i) ==
    IF i = 0 THEN <<s>>
    ELSE <<SubSeq(s, 1, i - 1)>> \o split(SubSeq(s, i + 1, Len(s)))
split(s) == splitAt(s, firstSpace(s, 1))

\* Quotients p/q with q > 0, compared without dividing
Gt(a, b) == a[1] * b[2] > b[1] * a[2]
Eq(a, b) == a[1] * b[2] = b[1] * a[2]

(***************************************************************************)
(* Array.prototype.sort: stable, by a comparator.  after[i][j] says that   *)
(* the comparator puts s[i] after s[j] (compare(s[i], s[j]) > 0).          *)
(***************************************************************************)
sortRank(n, after, i) ==
    Cardinality({j \in 1..n : after[i][j] \/ (~after[j][i] /\ j < i)})

stableSort(s, after) ==
    [p \in 1..Len(s) |-> s[CHOOSE i \in 1..Len(s) : sortRank(Len(s), after, i) = p - 1]]

(***************************************************************************)
(* SmartCategoryManager.calculateSimilarity                                *)
(***************************************************************************)

similarityOf(words1, words2) ==
    <<Len(SelectSeq(words1, LAMBDA word : arrayIncludes(words2, word))),
      Cardinality(Range(words1) \cup Range(words2))>>

calculateSimilarity(t1, t2) == similarityOf(split(t1), split(t2))

(***************************************************************************)
(* The rule catalog                                                        *)
(*                                                                         *)
(* A rule's optional negativeKeywords and patterns are <<>> when absent:   *)
(* the code treats an absent list and an empty one alike.  A pattern is a  *)
(* RegExp without flags that matches one literal text.                     *)
(***************************************************************************)
CATEGORY_RULES == <<
    [id |-> <<"s","a","l","a","r","y">>,
     keywords |-> <<<<"s","a","l","a","r","i","o">>,
                   <<"s","a","l","á","r","i","o">>,
                   <<"o","r","d","e","n","a","d","o">>,
                   <<"v","e","n","c","i","m","e","n","t","o">>,
                   <<"p","a","g","a","m","e","n","t","o">>,
                   <<"f","o","l","h","a">>>>,
     negativeKeywords |-> <<>>, patterns |-> <<>>,
     category |-> "Salário", confidence |-> <<95, 100>>, type |-> "income", priority |-> 1],
    [id |-> <<"f","r","e","e","l","a","n","c","e">>,
     keywords |-> <<<<"f","r","e","e","l","a","n","c","e">>,
                   <<"a","u","t","ô","n","o","m","o">>,
                   <<"a","u","t","o","n","o","m","o">>,
                   <<"c","o","n","s","u","l","t","a">>,
                   <<"p","r","o","j","e","t","o">>,
                   <<"s","e","r","v","i","ç","o"," ","p","r","e","s","t","a","d","o">>>>,
     negativeKeywords |-> <<>>, patterns |-> <<>>,
     category |-> "Freelance", confidence |-> <<90, 100>>, type |-> "income", priority |-> 2],
    [id |-> <<"i","n","v","e","s","t","m","e","n","t">>,
     keywords |-> <<<<"d","i","v","i","d","e","n","d","o">>,
                   <<"r","e","n","d","i","m","e","n","t","o">>,
                   <<"j","u","r","o","s">>,
                   <<"t","e","s","o","u","r","o">>,
                   <<"c","d","b">>,
                   <<"f","u","n","d","o">>,
                   <<"a","ç","õ","e","s">>>>,
     negativeKeywords |-> <<>>, patterns |-> <<>>,
     category |-> "Investimentos", confidence |-> <<95, 100>>, type |-> "income", priority |-> 1],
    [id |-> <<"f","o","o","d","-","s","u","p","e","r","m","a","r","k","e","t">>,
     keywords |-> <<<<"m","e","r","c","a","d","o">>,
                   <<"s","u","p","e","r","m","e","r","c","a","d","o">>,
                   <<"e","x","t","r","a">>,
                   <<"c","a","r","r","e","f","o","u","r">>,
                   <<"p","ã","o"," ","d","e"," ","a","ç","u","c","a","r">>,
                   <<"w","a","l","m","a","r","t">>>>,
     negativeKeywords |-> <<>>, patterns |-> <<>>,
     category |-> "Alimentação", confidence |-> <<95, 100>>, type |-> "expense", priority |-> 1],
    [id |-> <<"f","o","o","d","-","r","e","s","t","a","u","r","a","n","t">>,
     keywords |-> <<<<"r","e","s","t","a","u","r","a","n","t","e">>,
                   <<"i","f","o","o","d">>,
                   <<"u","b","e","r"," ","e","a","t","s">>,
                   <<"r","a","p","p","i">>,
                   <<"d","e","l","i","v","e","r","y">>,
                   <<"l","a","n","c","h","e">>>>,
     negativeKeywords |-> <<>>, patterns |-> <<>>,
     category |-> "Alimentação", confidence |-> <<90, 100>>, type |-> "expense", priority |-> 2],
    [id |-> <<"t","r","a","n","s","p","o","r","t","-","f","u","e","l">>,
     keywords |-> <<<<"p","o","s","t","o">>,
                   <<"g","a","s","o","l","i","n","a">>,
                   <<"a","l","c","o","o","l">>,
                   <<"e","t","a","n","o","l">>,
                   <<"d","i","e","s","e","l">>,
                   <<"c","o","m","b","u","s","t","i","v","e","l">>,
                   <<"s","h","e","l","l">>,
                   <<"p","e","t","r","o","b","r","a","s">>>>,
     negativeKeywords |-> <<>>, patterns |-> <<>>,
     category |-> "Transporte", confidence |-> <<95, 100>>, type |-> "expense", priority |-> 1],
    [id |-> <<"t","r","a","n","s","p","o","r","t","-","p","u","b","l","i","c">>,
     keywords |-> <<<<"m","e","t","r","o">>,
                   <<"t","r","e","m">>,
                   <<"ô","n","i","b","u","s">>,
                   <<"o","n","i","b","u","s">>,
                   <<"b","i","l","h","e","t","e"," ","u","n","i","c","o">>,
                   <<"t","r","a","n","s","p","o","r","t","e"," ","p","u","b","l","i","c","o">>>>,
     negativeKeywords |-> <<>>, patterns |-> <<>>,
     category |-> "Transporte", confidence |-> <<95, 100>>, type |-> "expense", priority |-> 1],
    [id |-> <<"t","r","a","n","s","p","o","r","t","-","r","i","d","e","s","h","a","r","e">>,
     keywords |-> <<<<"u","b","e","r">>,
                   <<"9","9">>,
                   <<"t","a","x","i">>,
                   <<"c","a","b","i","f","y">>,
                   <<"c","o","r","r","i","d","a">>>>,
     negativeKeywords |-> <<>>, patterns |-> <<>>,
     category |-> "Transporte", confidence |-> <<90, 100>>, type |-> "expense", priority |-> 2],
    [id |-> <<"h","o","u","s","i","n","g","-","r","e","n","t">>,
     keywords |-> <<<<"a","l","u","g","u","e","l">>,
                   <<"c","o","n","d","o","m","í","n","i","o">>,
                   <<"c","o","n","d","o","m","i","n","i","o">>,
                   <<"i","m","o","v","e","l">>>>,
     negativeKeywords |-> <<>>, patterns |-> <<>>,
     category |-> "Moradia", confidence |-> <<95, 100>>, type |-> "expense", priority |-> 1],
    [id |-> <<"h","o","u","s","i","n","g","-","u","t","i","l","i","t","i","e","s">>,
     keywords |-> <<<<"l","u","z">>,
                   <<"e","n","e","r","g","i","a">>,
                   <<"e","l","e","t","r","i","c","a">>,
                   <<"a","g","u","a">>,
                   <<"s","a","n","e","a","m","e","n","t","o">>,
                   <<"g","a","s">>,
                   <<"i","n","t","e","r","n","e","t">>,
                   <<"t","e","l","e","f","o","n","e">>,
                   <<"c","e","l","u","l","a","r">>>>,
     negativeKeywords |-> <<>>, patterns |-> <<>>,
     category |-> "Moradia", confidence |-> <<90, 100>>, type |-> "expense", priority |-> 2],
    [id |-> <<"h","e","a","l","t","h","-","m","e","d","i","c","a","l">>,
     keywords |-> <<<<"h","o","s","p","i","t","a","l">>,
                   <<"c","l","i","n","i","c","a">>,
                   <<"m","é","d","i","c","o">>,
                   <<"m","e","d","i","c","o">>,
                   <<"c","o","n","s","u","l","t","a">>,
                   <<"e","x","a","m","e">>,
                   <<"l","a","b","o","r","a","t","o","r","i","o">>>>,
     negativeKeywords |-> <<>>, patterns |-> <<>>,
     category |-> "Saúde", confidence |-> <<95, 100>>, type |-> "expense", priority |-> 1],
    [id |-> <<"h","e","a","l","t","h","-","p","h","a","r","m","a","c","y">>,
     keywords |-> <<<<"f","a","r","m","a","c","i","a">>,
                   <<"d","r","o","g","a","r","i","a">>,
                   <<"d","r","o","g","a"," ","r","a","i","a">>,
                   <<"p","a","c","h","e","c","o">>,
                   <<"r","e","m","e","d","i","o","s">>,
                   <<"m","e","d","i","c","a","m","e","n","t","o">>>>,
     negativeKeywords |-> <<>>, patterns |-> <<>>,
     category |-> "Saúde", confidence |-> <<90, 100>>, type |-> "expense", priority |-> 2],
    [id |-> <<"e","n","t","e","r","t","a","i","n","m","e","n","t","-","s","t","r","e","a","m","i","n","g">>,
     keywords |-> <<<<"n","e","t","f","l","i","x">>,
                   <<"s","p","o","t","i","f","y">>,
                   <<"a","m","a","z","o","n"," ","p","r","i","m","e">>,
                   <<"d","i","s","n","e","y">>,
                   <<"y","o","u","t","u","b","e"," ","p","r","e","m","i","u","m">>,
                   <<"a","s","s","i","n","a","t","u","r","a">>>>,
     negativeKeywords |-> <<>>, patterns |-> <<>>,
     category |-> "Lazer", confidence |-> <<95, 100>>, type |-> "expense", priority |-> 1],
    [id |-> <<"e","n","t","e","r","t","a","i","n","m","e","n","t","-","v","e","n","u","e","s">>,
     keywords |-> <<<<"c","i","n","e","m","a">>,
                   <<"t","e","a","t","r","o">>,
                   <<"s","h","o","w">>,
                   <<"i","n","g","r","e","s","s","o">>,
                   <<"e","v","e","n","t","o">>,
                   <<"b","a","r">>,
                   <<"b","a","l","a","d","a">>>>,
     negativeKeywords |-> <<>>, patterns |-> <<>>,
     category |-> "Lazer", confidence |-> <<90, 100>>, type |-> "expense", priority |-> 2],
    [id |-> <<"s","h","o","p","p","i","n","g","-","c","l","o","t","h","i","n","g">>,
     keywords |-> <<<<"r","o","u","p","a">>,
                   <<"s","a","p","a","t","o">>,
                   <<"c","a","l","ç","a","d","o">>,
                   <<"m","o","d","a">>,
                   <<"z","a","r","a">>,
                   <<"r","e","n","n","e","r">>,
                   <<"c","&","a">>,
                   <<"r","i","a","c","h","u","e","l","o">>>>,
     negativeKeywords |-> <<>>, patterns |-> <<>>,
     category |-> "Vestuário", confidence |-> <<90, 100>>, type |-> "expense", priority |-> 2],
    [id |-> <<"s","h","o","p","p","i","n","g","-","e","l","e","c","t","r","o","n","i","c","s">>,
     keywords |-> <<<<"m","a","g","a","z","i","n","e"," ","l","u","i","z","a">>,
                   <<"a","m","e","r","i","c","a","n","a","s">>,
                   <<"s","u","b","m","a","r","i","n","o">>,
                   <<"a","m","a","z","o","n">>,
                   <<"m","e","r","c","a","d","o"," ","l","i","v","r","e">>,
                   <<"e","l","e","t","r","o","n","i","c">>>>,
     negativeKeywords |-> <<>>, patterns |-> <<>>,
     category |-> "Eletrônicos", confidence |-> <<80, 100>>, type |-> "expense", priority |-> 3],
    [id |-> <<"e","d","u","c","a","t","i","o","n">>,
     keywords |-> <<<<"e","s","c","o","l","a">>,
                   <<"f","a","c","u","l","d","a","d","e">>,
                   <<"u","n","i","v","e","r","s","i","d","a","d","e">>,
                   <<"c","u","r","s","o">>,
                   <<"m","e","n","s","a","l","i","d","a","d","e">>,
                   <<"l","i","v","r","o">>,
                   <<"m","a","t","e","r","i","a","l"," ","e","s","c","o","l","a","r">>>>,
     negativeKeywords |-> <<>>, patterns |-> <<>>,
     category |-> "Educação", confidence |-> <<90, 100>>, type |-> "expense", priority |-> 2],
    [id |-> <<"f","i","n","a","n","c","i","a","l","-","f","e","e","s">>,
     keywords |-> <<<<"t","a","r","i","f","a">>,
                   <<"a","n","u","i","d","a","d","e">>,
                   <<"t","a","x","a">>,
                   <<"j","u","r","o","s">>,
                   <<"m","u","l","t","a">>,
                   <<"b","a","n","c","o">>>>,
     negativeKeywords |-> <<>>, patterns |-> <<>>,
     category |-> "Taxas Bancárias", confidence |-> <<90, 100>>, type |-> "expense", priority |-> 2] >>

CustomPrefix == <<"c","u","s","t","o","m","-">>

\* .sort((a, b) => a.priority - b.priority)
sortRules(rs) ==
    stableSort(rs, [i \in 1..Len(rs) |-> [j \in 1..Len(rs) |->
                       rs[i].priority - rs[j].priority > 0]])

\* constructor: this.rules
constructRules(customRules) == sortRules(CATEGORY_RULES \o customRules)

\* addCustomRule: the rule gets the id `custom-${Date.now()}-${random}`,
\* is pushed, and the catalog is sorted
addCustomRule(rs, rule, stamp) ==
    sortRules(Append(rs, [rule EXCEPT !.id = CustomPrefix \o stamp]))

exportRules(rs) == SelectSeq(rs, LAMBDA rule : startsWith(rule.id, CustomPrefix))

importRulesUnsorted(rs, imported) ==
    SelectSeq(rs, LAMBDA rule : ~startsWith(rule.id, CustomPrefix)) \o imported

importRules(rs, imported) ==
    sortRules(SelectSeq(rs, LAMBDA rule : ~startsWith(rule.id, CustomPrefix)) \o imported)

(***************************************************************************)
(* categorizeTransaction                                                   *)
(***************************************************************************)

KeywordReason == "palavra-chave correspondente"
PatternReason == "padrão correspondente"
SimilarReason == "transações similares"

\* pattern.test(description) for a literal pattern
patternTest(pattern, description) == includes(description, pattern)

keywordHitWholeWord(keywords, description) ==
    \E k \in 1..Len(keywords) :
        arrayIncludes(split(description), normalizeText(keywords[k]))

\* keywords.some(keyword => description.includes(this.normalizeText(keyword)))
keywordHit(keywords, description) ==
    \E k \in 1..Len(keywords) : includes(description, normalizeText(keywords[k]))

\* patterns.some(pattern => pattern.test(description))
patternHit(patterns, description) ==
    \E k \in 1..Len(patterns) : patternTest(patterns[k], description)

matchOutcomeVeto(keyword, negative, pattern) ==
    [match |-> (keyword \/ pattern) /\ ~negative,
     matchReason |-> IF keyword THEN KeywordReason
                     ELSE IF pattern THEN PatternReason ELSE ""]

\* match and matchReason at the end of one turn of the loop over the rules:
\* keyword says that a keyword was found, negative that a negative keyword
\* was, pattern that a pattern matched
matchOutcome(keyword, negative, pattern) ==
    [match |-> (keyword /\ ~negative) \/ pattern,
     matchReason |-> IF ~(keyword /\ ~negative) /\ pattern THEN PatternReason
                     ELSE IF keyword THEN KeywordReason ELSE ""]

ruleMatch(rule, description) ==
    matchOutcome(keywordHit(rule.keywords, description),
                 keywordHit(rule.negativeKeywords, description),
                 patternHit(rule.patterns, description))

\* rule.type !== 'both' && rule.type !== transaction.type
ruleSkipped(rule, transaction) ==
    rule.type # "both" /\ rule.type # transaction.type

\* what the loop over the rules leaves when it ends without a return
NoRule == [category |-> "", confidence |-> <<0, 1>>, reason |-> ""]

ruleResult(rule, m, otherwise) ==
    IF m.match
    THEN [category |-> rule.category, confidence |-> rule.confidence,
          reason |-> m.matchReason]
    ELSE otherwise

\* the for loop over this.rules, from rule i on
RECURSIVE matchRules(_, _, _, _)
matchRules(rs, i, transaction, description) ==
    IF i > Len(rs) THEN NoRule
    ELSE IF ruleSkipped(rs[i], transaction)
         THEN matchRules(rs, i + 1, transaction, description)
         ELSE ruleResult(rs[i], ruleMatch(rs[i], description),
                         matchRules(rs, i + 1, transaction, description))

categorizeByAmountInclusive(transaction) ==
    IF transaction.type = "income"
    THEN IF transaction.amount >= 300000
         THEN [category |-> "Salário", confidence |-> <<6, 10>>, reason |-> "valor alto de receita"]
         ELSE IF transaction.amount >= 50000
         THEN [category |-> "Freelance", confidence |-> <<5, 10>>, reason |-> "valor médio de receita"]
         ELSE [category |-> "Outros", confidence |-> <<3, 10>>, reason |-> "valor baixo de receita"]
    ELSE IF transaction.amount >= 100000
         THEN [category |-> "Moradia", confidence |-> <<4, 10>>, reason |-> "valor alto de despesa"]
         ELSE IF transaction.amount >= 20000
         THEN [category |-> "Alimentação", confidence |-> <<4, 10>>, reason |-> "valor médio de despesa"]
         ELSE [category |-> "Outros", confidence |-> <<3, 10>>, reason |-> "valor baixo de despesa"]

\* amounts are in cents: 3000 is 300000
categorizeByAmount(transaction) ==
    IF transaction.type = "income"
    THEN IF transaction.amount > 300000
         THEN [category |-> "Salário", confidence |-> <<6, 10>>, reason |-> "valor alto de receita"]
         ELSE IF transaction.amount > 50000
         THEN [category |-> "Freelance", confidence |-> <<5, 10>>, reason |-> "valor médio de receita"]
         ELSE [category |-> "Outros", confidence |-> <<3, 10>>, reason |-> "valor baixo de receita"]
    ELSE IF transaction.amount > 100000
         THEN [category |-> "Moradia", confidence |-> <<4, 10>>, reason |-> "valor alto de despesa"]
         ELSE IF transaction.amount > 20000
         THEN [category |-> "Alimentação", confidence |-> <<4, 10>>, reason |-> "valor médio de despesa"]
         ELSE [category |-> "Outros", confidence |-> <<3, 10>>, reason |-> "valor baixo de despesa"]

similarToAnyId(history, transaction) ==
    SelectSeq(history, LAMBDA t :
        /\ t.type = transaction.type
        /\ Gt(calculateSimilarity(normalizeText(transaction.description),
                                  normalizeText(t.description)), <<6, 10>>))

\* similarTransactions: the historical transactions the similarity tier keeps
similarTo(history, transaction) ==
    SelectSeq(history, LAMBDA t :
        /\ t.id # transaction.id
        /\ t.type = transaction.type
        /\ Gt(calculateSimilarity(normalizeText(transaction.description),
                                  normalizeText(t.description)), <<6, 10>>))

\* categoryCount.set(category, count + 1): a Map keeps its keys in the order
\* they were first set; its entries are <<category, count>>
countOne(entries, c) ==
    IF \E k \in 1..Len(entries) : entries[k][1] = c
    THEN [k \in 1..Len(entries) |->
            IF entries[k][1] = c THEN <<c, entries[k][2] + 1>> ELSE entries[k]]
    ELSE Append(entries, <<c, 1>>)

\* similarTransactions.forEach(...), for the first n of them
RECURSIVE countCategories(_, _)
countCategories(ts, n) ==
    IF n = 0 THEN <<>> ELSE countOne(countCategories(ts, n - 1), ts[n].category)

\* .sort((a, b) => b[1] - a[1])
sortByCount(entries) ==
    stableSort(entries, [i \in 1..Len(entries) |-> [j \in 1..Len(entries) |->
                            entries[j][2] - entries[i][2] > 0]])

mostCommonResult(mostCommonCategory, n) ==
    [category |-> mostCommonCategory[1],
     confidence |-> <<mostCommonCategory[2], n>>,
     reason |-> SimilarReason]

similarResult(similarTransactions, transaction) ==
    IF Len(similarTransactions) > 0
    THEN mostCommonResult(
             sortByCount(countCategories(similarTransactions, Len(similarTransactions)))[1],
             Len(similarTransactions))
    ELSE categorizeByAmount(transaction)

mlCategorizeTransaction(history, transaction) ==
    similarResult(similarTo(history, transaction), transaction)

ruleOrFallback(byRule, history, transaction) ==
    IF byRule # NoRule THEN byRule ELSE mlCategorizeTransaction(history, transaction)

categorizeTransaction(rs, history, transaction) ==
    ruleOrFallback(matchRules(rs, 1, transaction, normalizeText(transaction.description)),
                   history, transaction)

(***************************************************************************)
(* batchCategorize                                                         *)
(***************************************************************************)

batchEntry(ref, transaction, r) ==
    [transaction |-> ref,
     oldCategory |-> transaction.category,
     newCategory |-> r.category,
     confidence |-> r.confidence,
     reason |-> r.reason]

batchTurnApplying(acc, ref, transaction, r) ==
    IF r.category # transaction.category /\ Gt(r.confidence, <<7, 10>>)
    THEN [results |-> Append(acc.results, batchEntry(ref, transaction, r)),
          objects |-> [acc.objects EXCEPT ![ref].category = r.category]]
    ELSE acc

\* One turn of transactions.forEach: acc is the results so far and the
\* transaction objects, which the callback reads and never assigns; r is
\* what categorizeTransaction returned for the transaction.
batchTurn(acc, ref, transaction, r) ==
    IF r.category # transaction.category /\ Gt(r.confidence, <<7, 10>>)
    THEN [results |-> Append(acc.results, batchEntry(ref, transaction, r)),
          objects |-> acc.objects]
    ELSE acc

deref(objs, refs) == [i \in 1..Len(refs) |-> objs[refs[i]]]

batchStep(rs, hist, acc, ref) ==
    batchTurn(acc, ref, acc.objects[ref],
              categorizeTransaction(rs, deref(acc.objects, hist), acc.objects[ref]))

\* transactions.forEach, for the first n transactions
RECURSIVE batchLoop(_, _, _, _, _)
batchLoop(rs, hist, objs, refs, n) ==
    IF n = 0 THEN [results |-> <<>>, objects |-> objs]
    ELSE batchStep(rs, hist, batchLoop(rs, hist, objs, refs, n - 1), refs[n])

sortByConfidenceAscending(rs) ==
    stableSort(rs, [i \in 1..Len(rs) |-> [j \in 1..Len(rs) |->
                       Gt(rs[i].confidence, rs[j].confidence)]])

\* .sort((a, b) => b.confidence - a.confidence)
sortByConfidence(rs) ==
    stableSort(rs, [i \in 1..Len(rs) |-> [j \in 1..Len(rs) |->
                       Gt(rs[j].confidence, rs[i].confidence)]])

sortResults(done) ==
    [results |-> sortByConfidence(done.results), objects |-> done.objects]

\* the list batchCategorize returns, and the transaction objects after it
batchCategorize(rs, hist, objs, refs) ==
    sortResults(batchLoop(rs, hist, objs, refs, Len(refs)))

(***************************************************************************)
(* groupSimilarTransactions and getCategorySuggestions                     *)
(***************************************************************************)

\* similarTransactions of one turn: the transactions not processed yet that
\* are of the type of transaction ref and similar to it above 0.7
similarGroupAnySeen(objs, hist, processed, ref) ==
    SelectSeq(hist, LAMBDA r :
        /\ objs[r].type = objs[ref].type
        /\ Gt(calculateSimilarity(normalizeText(objs[ref].description),
                                  normalizeText(objs[r].description)), <<7, 10>>))

similarGroup(objs, hist, processed, ref) ==
    SelectSeq(hist, LAMBDA r :
        /\ objs[r].id \notin processed
        /\ objs[r].type = objs[ref].type
        /\ Gt(calculateSimilarity(normalizeText(objs[ref].description),
                                  normalizeText(objs[r].description)), <<7, 10>>))

groupPush(objs, acc, similarTransactions) ==
    IF Len(similarTransactions) > 1
    THEN [groups |-> Append(acc.groups, similarTransactions),
          processed |-> acc.processed \cup
                          {objs[similarTransactions[k]].id : k \in 1..Len(similarTransactions)}]
    ELSE acc

groupTurn(objs, hist, acc, ref) ==
    IF objs[ref].id \in acc.processed THEN acc
    ELSE groupPush(objs, acc, similarGroup(objs, hist, acc.processed, ref))

\* this.transactions.forEach, for the first n transactions
RECURSIVE groupLoop(_, _, _)
groupLoop(objs, hist, n) ==
    IF n = 0 THEN [groups |-> <<>>, processed |-> {}]
    ELSE groupTurn(objs, hist, groupLoop(objs, hist, n - 1), hist[n])

groupSimilarTransactions(objs, hist) == groupLoop(objs, hist, Len(hist)).groups

\* `${k} de ${n} transações similares usam esta categoria`
suggestionReason(k, n) == <<k, " de ", n, " transações similares usam esta categoria">>

suggestionFor(objs, group, sortedCategories, transactionsToChange) ==
    IF /\ Len(sortedCategories) > 1
       /\ sortedCategories[1][2] > sortedCategories[2][2]
       /\ Len(transactionsToChange) > 0
    THEN << [originalCategory |-> objs[transactionsToChange[1]].category,
             suggestedCategory |-> sortedCategories[1][1],
             reason |-> suggestionReason(sortedCategories[1][2], Len(group)),
             confidence |-> <<sortedCategories[1][2], Len(group)>>,
             transactions |-> transactionsToChange] >>
    ELSE <<>>

suggestionOfSortedKeepingAll(objs, group, sortedCategories) ==
    suggestionFor(objs, group, sortedCategories, group)

suggestionOfSorted(objs, group, sortedCategories) ==
    suggestionFor(objs, group, sortedCategories,
        IF Len(sortedCategories) > 1
        THEN SelectSeq(group, LAMBDA r : objs[r].category # sortedCategories[1][1])
        ELSE <<>>)

\* what one group adds to suggestions: nothing or one suggestion
suggestionOf(objs, group) ==
    IF Len(group) >= 3
       /\ Cardinality({objs[group[k]].category : k \in 1..Len(group)}) > 1
    THEN suggestionOfSorted(objs, group,
             sortByCount(countCategories(deref(objs, group), Len(group))))
    ELSE <<>>

getCategorySuggestions(objs, hist) ==
    sortByConfidence(Flatten(
        [g \in 1..Len(groupSimilarTransactions(objs, hist)) |->
            suggestionOf(objs, groupSimilarTransactions(objs, hist)[g])]))

(***************************************************************************)
(* The category manager as a state machine                                 *)
(***************************************************************************)

\* The transaction objects of the application
TxObjects == <<
    [id |-> "t1", description |-> <<"U","B","E","R"," ","E","A","T","S"," ","P","E","D","I","D","O"," ","1","2","3">>,
     amount |-> 4590, type |-> "expense", category |-> "Outros"],
    [id |-> "t2", description |-> <<"L","o","j","a"," ","K","i","m">>,
     amount |-> 25000, type |-> "expense", category |-> "Lazer"],
    [id |-> "t3", description |-> <<"l","o","j","a"," ","k","i","m"," ","s","p">>,
     amount |-> 150000, type |-> "expense", category |-> "Lazer"],
    [id |-> "t4", description |-> <<"L","O","J","A"," "," ","K","I","M","-","K","I","M">>,
     amount |-> 5000, type |-> "expense", category |-> "Vestuário"],
    [id |-> "t5", description |-> <<"L","o","j","a"," ","K","i","m">>,
     amount |-> 400000, type |-> "income", category |-> "Salário"],
    [id |-> "t6", description |-> <<"L","o","j","a","\t","K","i","m"," ","k","i","m"," ","a"," ","b"," ","c">>,
     amount |-> 30000, type |-> "expense", category |-> "Moradia"],
    [id |-> "t7", description |-> <<"K","i","m"," ","L","o","j","a">>,
     amount |-> 20000, type |-> "expense", category |-> "Lazer"],
    [id |-> "t8", description |-> <<"z","z","z">>,
     amount |-> 50000, type |-> "income", category |-> "Outros"],
    [id |-> "t9", description |-> <<>>,
     amount |-> 100000, type |-> "expense", category |-> "Outros"],
    [id |-> "t10", description |-> <<"A","ç","a","í"," ","d","o"," ","Z","é">>,
     amount |-> 300000, type |-> "income", category |-> "Freelance"],
    [id |-> "t11", description |-> <<"U","b","e","r"," ","*","T","r","i","p">>,
     amount |-> 2000, type |-> "expense", category |-> "Transporte"] >>
Refs == 1..Len(TxObjects)

\* Rules a caller may hand to the constructor, addCustomRule or importRules
CustomRulePool == <<
    [id |-> <<"c","u","s","t","o","m","-","a">>,
     keywords |-> << <<"L","O","J","A">> >>,
     negativeKeywords |-> << <<"s","p">> >>, patterns |-> <<>>,
     category |-> "Compras", confidence |-> <<85, 100>>, type |-> "both", priority |-> 0],
    [id |-> <<"m","i","n","e">>,
     keywords |-> << <<"u","b","e","r">> >>,
     negativeKeywords |-> << <<"e","a","t","s">> >>, patterns |-> << <<"1","2","3">> >>,
     category |-> "Viagem", confidence |-> <<80, 100>>, type |-> "expense", priority |-> 1],
    [id |-> <<"c","u","s","t","o","m","-","b">>,
     keywords |-> <<>>,
     negativeKeywords |-> <<>>, patterns |-> << <<"k","i","m">> >>,
     category |-> "Presentes", confidence |-> <<75, 100>>, type |-> "income", priority |-> 3] >>

MaxCustomRules == 1
MaxHistory == 3
MaxBatch == 2

\* the lists of at most n rules of the pool
RuleLists(n) == UNION {[1..k -> Range(CustomRulePool)] : k \in 0..n}

\* the transactions a manager may hold: stored ones, with distinct ids
HistoryRefs == {2, 4, 7}
Histories ==
    {h \in UNION {[1..k -> HistoryRefs] : k \in 0..MaxHistory} :
        \A i, j \in 1..Len(h) : i < j => h[i] < h[j]}

\* the lists a caller may hand to batchCategorize
BatchRefs == {1, 2, 5}
BatchInputs == UNION {[1..k -> BatchRefs] : k \in 0..MaxBatch}

\* `${Date.now()}-${random}`: the code reads no more of an id than its prefix
Stamps == { <<"1">> }

\* the manager's methods touch nothing else of the application
CatOnly == UNCHANGED <<simVars, normVars, faVars, locVars, goalVars, hostVars, cacheVars>>

CatInit ==
    /\ SimIdle /\ NormIdle /\ FaIdle /\ LocIdle /\ GoalIdle /\ HostIdle /\ CacheIdle
    /\ objects = TxObjects
    /\ \E customRules \in RuleLists(MaxCustomRules) :
          rules = constructRules(customRules)
    /\ mgrTransactions \in Histories
    /\ call = None
    /\ result = None

AddCustomRule ==
    /\ Len(rules) < Len(CATEGORY_RULES) + MaxCustomRules
    /\ \E k \in 1..Len(CustomRulePool), stamp \in Stamps :
          /\ rules' = addCustomRule(rules, CustomRulePool[k], stamp)
          /\ call' = [op |-> "addCustomRule", rule |-> k]
    /\ result' = None
    /\ UNCHANGED <<objects, mgrTransactions>>
    /\ CatOnly

ImportRules ==
    /\ \E imported \in RuleLists(MaxCustomRules) :
          /\ rules' = importRules(rules, imported)
          /\ Len(rules') <= Len(CATEGORY_RULES) + MaxCustomRules
          /\ call' = [op |-> "importRules", rules |-> imported]
    /\ result' = None
    /\ UNCHANGED <<objects, mgrTransactions>>
    /\ CatOnly

CategorizeTransaction ==
    /\ \E ref \in Refs :
          /\ call' = [op |-> "categorizeTransaction", transaction |-> ref]
          /\ result' = categorizeTransaction(rules, deref(objects, mgrTransactions),
                                             objects[ref])
    /\ UNCHANGED <<objects, rules, mgrTransactions>>
    /\ CatOnly

BatchCategorize ==
    /\ \E refs \in BatchInputs :
          \E out \in {batchCategorize(rules, mgrTransactions, objects, refs)} :
              /\ call' = [op |-> "batchCategorize", transactions |-> refs]
              /\ result' = out.results
              /\ objects' = out.objects
    /\ UNCHANGED <<rules, mgrTransactions>>
    /\ CatOnly

GetCategorySuggestions ==
    /\ call' = [op |-> "getCategorySuggestions"]
    /\ result' = getCategorySuggestions(objects, mgrTransactions)
    /\ UNCHANGED <<objects, rules, mgrTransactions>>
    /\ CatOnly

CatNext ==
    \/ AddCustomRule
    \/ ImportRules
    \/ CategorizeTransaction
    \/ BatchCategorize
    \/ GetCategorySuggestions

SpecCat == CatInit /\ [][CatNext]_vars

(***************************************************************************)
(* The backup of the custom rules: exportRules, and importRules into a     *)
(* fresh manager                                                           *)
(***************************************************************************)

\* the transactions a caller categorizes before and after a backup
RoundTripRefs == {1, 2, 5}

ExportRules ==
    /\ call' = [op |-> "exportRules"]
    /\ result' = exportRules(rules)
    /\ UNCHANGED <<objects, rules, mgrTransactions>>
    /\ CatOnly

\* const before = a.categorizeTransaction(transaction);
\* const b = new SmartCategoryManager(transactions, categories);
\* b.importRules(a.exportRules());
\* const after = b.categorizeTransaction(transaction);
ExportImportCategorize ==
    /\ \E ref \in RoundTripRefs :
          /\ call' = [op |-> "exportImportCategorize", transaction |-> ref]
          /\ result' =
                [before |-> categorizeTransaction(rules, deref(objects, mgrTransactions),
                                                  objects[ref]),
                 after |-> categorizeTransaction(
                               importRules(constructRules(<<>>), exportRules(rules)),
                               deref(objects, mgrTransactions), objects[ref])]
    /\ UNCHANGED <<objects, rules, mgrTransactions>>
    /\ CatOnly

RulesNext ==
    \/ AddCustomRule
    \/ ImportRules
    \/ ExportRules
    \/ ExportImportCategorize

SpecRules == CatInit /\ [][RulesNext]_vars

(***************************************************************************)
(* Properties of the category manager                                      *)
(***************************************************************************)

Min(S) == CHOOSE x \in S : \A y \in S : x <= y

\* a rule is of the transaction's type
applicable(rule, transaction) ==
    rule.type = "both" \/ rule.type = transaction.type

\* the description d contains some of the words, each normalized
containsSome(words, d) ==
    \E k \in 1..Len(words) : includes(d, normalizeText(words[k]))

\* the applicable rules of the catalog rs that match the transaction
MatchingRules(rs, transaction, d) ==
    {i \in 1..Len(rs) :
        /\ applicable(rs[i], transaction)
        /\ \/ containsSome(rs[i].keywords, d) /\ ~containsSome(rs[i].negativeKeywords, d)
           \/ \E k \in 1..Len(rs[i].patterns) : patternTest(rs[i].patterns[k], d)}

CalledMatching ==
    MatchingRules(rules, objects[call.transaction],
                  normalizeText(objects[call.transaction].description))

\* the places of the manager's history that hold a transaction of another
\* id, of the transaction's type, more similar to it than 0.6
SimilarSet(transaction) ==
    {k \in 1..Len(mgrTransactions) :
        /\ objects[mgrTransactions[k]].id # transaction.id
        /\ objects[mgrTransactions[k]].type = transaction.type
        /\ Gt(calculateSimilarity(normalizeText(transaction.description),
                                  normalizeText(objects[mgrTransactions[k]].description)),
              <<6, 10>>)}

CalledSimilar == SimilarSet(objects[call.transaction])

CountIn(S, category) ==
    Cardinality({k \in S : objects[mgrTransactions[k]].category = category})

\* C3: categorizeTransaction, batchCategorize and getCategorySuggestions
\* never change a field of a transaction: every transaction object is, after
\* any sequence of calls, what it was before them.
C3_TransactionsNeverRewritten == objects = TxObjects

\* batchCategorize has proposed a new category for a transaction, which
\* keeps its old one
C3_Witness ==
    /\ call.op = "batchCategorize"
    /\ Len(result) > 0
    /\ objects[result[1].transaction].category = result[1].oldCategory
    /\ result[1].newCategory # result[1].oldCategory

\* C4: after construction and after any addCustomRule and importRules, no
\* rule of the catalog stands before a rule of a strictly lower priority.
C4_CatalogSortedByPriority ==
    \A i, j \in 1..Len(rules) : i < j => rules[i].priority <= rules[j].priority

\* importRules has brought in a rule that belongs before the built-in ones
C4_Witness ==
    /\ call.op = "importRules"
    /\ Len(rules) > Len(CATEGORY_RULES)
    /\ startsWith(rules[1].id, CustomPrefix)
    /\ rules[1].priority < rules[2].priority

firstRuleReturned(M) ==
    M # {} => /\ result.category = rules[Min(M)].category
              /\ result.confidence = rules[Min(M)].confidence

mostFrequentReturned(S) ==
    /\ \A k \in S : CountIn(S, result.category) >=
                       CountIn(S, objects[mgrTransactions[k]].category)
    /\ CountIn(S, result.category) > 0
    /\ Eq(result.confidence, <<CountIn(S, result.category), Cardinality(S)>>)

AmountBand(type, amount) ==
    IF type = "income"
    THEN CASE amount > 300000 -> <<"Salário", <<6, 10>> >>
           [] amount > 50000 /\ amount <= 300000 -> <<"Freelance", <<5, 10>> >>
           [] OTHER -> <<"Outros", <<3, 10>> >>
    ELSE CASE amount > 100000 -> <<"Moradia", <<4, 10>> >>
           [] amount > 20000 /\ amount <= 100000 -> <<"Alimentação", <<4, 10>> >>
           [] OTHER -> <<"Outros", <<3, 10>> >>

bandReturned(band) ==
    result.category = band[1] /\ Eq(result.confidence, band[2])

\* C7: categorizeTransaction always returns a result; when no rule matches
\* and no historical transaction is similar, the result is the band of the
\* amount: income above 3000 Salário 0.6, above 500 Freelance 0.5, else
\* Outros 0.3; expense above 1000 Moradia 0.4, above 200 Alimentação 0.4,
\* else Outros 0.3.
C7_AmountHeuristic ==
    call.op = "categorizeTransaction" =>
        /\ result # None
        /\ result.category # ""
        /\ (CalledMatching = {} /\ CalledSimilar = {}) =>
              bandReturned(AmountBand(objects[call.transaction].type,
                                      objects[call.transaction].amount))

\* an income of exactly 500 falls to the last band
C7_Witness ==
    /\ call.op = "categorizeTransaction"
    /\ CalledMatching = {} /\ CalledSimilar = {}
    /\ objects[call.transaction].type = "income"
    /\ objects[call.transaction].amount = 50000
    /\ result.category = "Outros"

\* the input transaction qualifies: its suggested category differs from its
\* category and the confidence is above 0.7
qualifies(suggested, transaction) ==
    suggested.category # transaction.category /\ Gt(suggested.confidence, <<7, 10>>)

Qualifies(ref) ==
    qualifies(categorizeTransaction(rules, deref(objects, mgrTransactions), objects[ref]),
              objects[ref])

Occurrences(s, x) == Cardinality({k \in 1..Len(s) : s[k] = x})

\* C8: batchCategorize returns no entry whose new category is the old one
\* and none of confidence 0.7 or less; it returns every input transaction
\* that qualifies, once for each time it was given; and the entries are in
\* non-increasing order of confidence.
C8_BatchFilteredAndSorted ==
    call.op = "batchCategorize" =>
        /\ \A k \in 1..Len(result) :
              /\ result[k].newCategory # result[k].oldCategory
              /\ Gt(result[k].confidence, <<7, 10>>)
        /\ \A ref \in Range(call.transactions) :
              Qualifies(ref) =>
                 Occurrences([k \in 1..Len(result) |-> result[k].transaction], ref)
                    = Occurrences(call.transactions, ref)
        /\ \A i, j \in 1..Len(result) :
              i < j => ~Gt(result[j].confidence, result[i].confidence)

\* two entries of different confidences come back in the other order than
\* their transactions were given
C8_Witness ==
    /\ call.op = "batchCategorize"
    /\ Len(call.transactions) = 2
    /\ Len(result) = 2
    /\ Gt(result[1].confidence, result[2].confidence)
    /\ result[1].transaction = call.transactions[2]

ruleById(id) == CATEGORY_RULES[CHOOSE k \in 1..Len(CATEGORY_RULES) : CATEGORY_RULES[k].id = id]

UberEats == <<"U","B","E","R"," ","E","A","T","S"," ","P","E","D","I","D","O"," ","1","2","3">>

UberEatsCalled ==
    /\ call.op = "categorizeTransaction"
    /\ objects[call.transaction].description = UberEats
    /\ objects[call.transaction].amount = 4590
    /\ objects[call.transaction].type = "expense"
    /\ rules = constructRules(<<>>)

\* C9: against the built-in catalog the expense "UBER EATS PEDIDO 123" of
\* 45.90 gets the category of the food-restaurant rule, not that of the
\* transport-rideshare rule, with confidence 0.9 and the keyword reason.
C9_UberEatsIsFood ==
    UberEatsCalled =>
        /\ result.category = ruleById(<<"f","o","o","d","-","r","e","s","t","a","u","r","a","n","t">>).category
        /\ result.category #
              ruleById(<<"t","r","a","n","s","p","o","r","t","-","r","i","d","e","s","h","a","r","e">>).category
        /\ Eq(result.confidence, <<9, 10>>)
        /\ result.reason = KeywordReason

C9_Witness == UberEatsCalled /\ result.category = "Alimentação"

\* a rule of the catalog that a caller brought: at construction, by
\* addCustomRule or by importRules
callerAdded(rule) == \A k \in 1..Len(CATEGORY_RULES) : CATEGORY_RULES[k] # rule

\* C13: exportRules returns exactly the caller-added rules that are in the
\* catalog (given at construction, added by addCustomRule or loaded by
\* importRules), in the order of the catalog, and never a built-in rule.
C13_ExportReturnsCallerRules ==
    call.op = "exportRules" => result = SelectSeq(rules, callerAdded)

\* C14: when a caller-added rule of catalog A categorizes a transaction,
\* a fresh catalog B that imports what A exports returns for it the same
\* category, confidence and reason as A.
C14_ExportImportRoundTrip ==
    (/\ call.op = "exportImportCategorize"
     /\ CalledMatching # {}
     /\ callerAdded(rules[Min(CalledMatching)]))
        => result.after = result.before

(***************************************************************************)
(* The groups of similar transactions and the suggestions drawn from them  *)
(***************************************************************************)

MaxGrouped == 4

Word(description, type, category) ==
    [id |-> <<description, type, category>>, description |-> description,
     amount |-> 1000, type |-> type, category |-> category]

\* transactions whose descriptions share words
GroupObjects == <<
    Word(<<"a"," ","b"," ","c">>, "expense", "Lazer"),
    Word(<<"a"," ","b"," ","c"," ","d">>, "expense", "Lazer"),
    Word(<<"a"," ","b"," ","c"," ","d"," ","e">>, "expense", "Mercado"),
    Word(<<"a"," ","b"," ","c">>, "expense", "Vestuário"),
    Word(<<"a"," ","b"," ","c">>, "income", "Salário"),
    Word(<<"a"," ","b"," ","c"," ","d">>, "expense", "Moradia"),
    Word(<<"x"," ","x"," ","x"," ","y">>, "expense", "Lazer"),
    Word(<<"x"," ","z"," ","w">>, "expense", "Outros") >>

\* the transactions a manager may hold, in any order
GroupHistories ==
    {h \in UNION {[1..k -> 1..Len(GroupObjects)] : k \in 0..MaxGrouped} :
        \A i, j \in 1..Len(h) : i # j => h[i] # h[j]}

GroupInit ==
    /\ SimIdle /\ NormIdle /\ FaIdle /\ LocIdle /\ GoalIdle /\ HostIdle /\ CacheIdle
    /\ objects = GroupObjects
    /\ rules = constructRules(<<>>)
    /\ mgrTransactions \in GroupHistories
    /\ call = None
    /\ result = None

\* this.groupSimilarTransactions(), as getCategorySuggestions calls it
GroupSimilarTransactions ==
    /\ call' = [op |-> "groupSimilarTransactions"]
    /\ result' = groupSimilarTransactions(objects, mgrTransactions)
    /\ UNCHANGED <<objects, rules, mgrTransactions>>
    /\ CatOnly

GroupNext == GroupSimilarTransactions \/ GetCategorySuggestions

SpecGroups == GroupInit /\ [][GroupNext]_vars

\* the similarity of the descriptions of two held transactions
SimilarityOfRefs(seed, member) ==
    calculateSimilarity(normalizeText(objects[seed].description),
                        normalizeText(objects[member].description))

\* the members of the group of groups that holds ref, none when no group does
GroupOf(groups, ref) ==
    UNION {Range(groups[g]) : g \in {k \in 1..Len(groups) : ref \in Range(groups[k])}}

groupWellFormed(group) ==
    /\ Len(group) >= 2
    /\ \A i, j \in 1..Len(group) : objects[group[i]].type = objects[group[j]].type
    /\ \E seed \in Range(group) :
           \A member \in Range(group) : Gt(SimilarityOfRefs(seed, member), <<7, 10>>)
    /\ \A i, j \in 1..Len(group) : i # j => group[i] # group[j]

CategoriesOf(group) == {objects[group[i]].category : i \in 1..Len(group)}
MembersIn(group, category) ==
    Cardinality({i \in 1..Len(group) : objects[group[i]].category = category})
Leaders(group) ==
    {c \in CategoriesOf(group) :
        \A d \in CategoriesOf(group) : MembersIn(group, d) <= MembersIn(group, c)}

Mixed(group) == Len(group) >= 3 /\ Cardinality(CategoriesOf(group)) > 1

\* the suggestion s moves the members of the group to the category
suggests(s, group, category) ==
    /\ s.suggestedCategory = category
    /\ s.transactions = SelectSeq(group, LAMBDA r : objects[r].category # category)
    /\ Eq(s.confidence, <<MembersIn(group, category), Len(group)>>)

suggested(group) ==
    \E i \in 1..Len(result) : \E category \in Leaders(group) :
        suggests(result[i], group, category)

Groups == groupSimilarTransactions(objects, mgrTransactions)

\* C21: getCategorySuggestions has a suggestion for every group of three or
\* more similar transactions with more than one category among them: it
\* suggests the most frequent category of the group, lists exactly the
\* members not in it, and has the confidence k/n for k members of n in it.
C21_SuggestionForEveryMixedGroup ==
    call.op = "getCategorySuggestions" =>
        \A g \in 1..Len(Groups) : Mixed(Groups[g]) => suggested(Groups[g])

\* C21 amended: the same for every such group with one category more
\* frequent than every other, and no suggestion for any other group.
C21_SuggestionForEveryGroupWithLeader ==
    call.op = "getCategorySuggestions" =>
        /\ \A g \in 1..Len(Groups) :
               Mixed(Groups[g]) /\ Cardinality(Leaders(Groups[g])) = 1
                   => suggested(Groups[g])
        /\ Len(result) =
               Cardinality({g \in 1..Len(Groups) :
                               Mixed(Groups[g]) /\ Cardinality(Leaders(Groups[g])) = 1})

\* a group of four with two members in the suggested category
C21_Witness ==
    /\ call.op = "getCategorySuggestions"
    /\ Len(result) = 1
    /\ Len(result[1].transactions) = 2
    /\ Eq(result[1].confidence, <<1, 2>>)

(***************************************************************************)
(* calculateSimilarity over normalized texts                               *)
(***************************************************************************)

MaxTokens == 3

\* the words of the texts
Tokens == { <<"a">>, <<"b">> }

\* the words joined by single spaces
RECURSIVE joinWords(_)
joinWords(words) ==
    IF words = <<>> THEN <<>>
    ELSE IF Len(words) = 1 THEN words[1]
    ELSE words[1] \o <<" ">> \o joinWords(Tail(words))

\* normalized texts: what normalizeText returns, the empty text included
Texts == {joinWords(words) : words \in UNION {[1..k -> Tokens] : k \in 0..MaxTokens}}

SimOnly == UNCHANGED <<catVars, normVars, faVars, locVars, goalVars, hostVars, cacheVars>>

SimInit ==
    /\ CatIdle /\ NormIdle /\ FaIdle /\ LocIdle /\ GoalIdle /\ HostIdle /\ CacheIdle
    /\ text1 \in Texts
    /\ text2 \in Texts
    /\ score = None

CalculateSimilarity ==
    /\ score = None
    /\ score' = calculateSimilarity(text1, text2)
    /\ UNCHANGED <<text1, text2>>
    /\ SimOnly

SimNext == CalculateSimilarity

SpecSimilarity == SimInit /\ [][SimNext]_vars

\* the set of the whitespace-separated tokens of a normalized text
TokenSet(text) == Range(split(text)) \ { <<>> }

jaccard(A, B) ==
    /\ (A \cup B # {}) => Eq(score, <<Cardinality(A \cap B), Cardinality(A \cup B)>>)
    /\ (A \cup B = {}) => score[1] = 0

\* C10: the score of two normalized texts is |A n B| / |A u B| over their
\* sets of tokens, it lies in [0,1], and it is 0 when both texts are empty.
C10_TokenSetJaccard ==
    score # None =>
        /\ jaccard(TokenSet(text1), TokenSet(text2))
        /\ score[1] >= 0 /\ score[1] <= score[2]

\* C11: the score is symmetric, similarity(a, b) = similarity(b, a), and the
\* score of a non-empty text with itself is 1, repeated tokens included.
C11_SymmetricAndReflexive ==
    score # None =>
        /\ Eq(score, calculateSimilarity(text2, text1))
        /\ (text1 = text2 /\ text1 # <<>>) => Eq(score, <<1, 1>>)

(***************************************************************************)
(* normalizeText over raw texts                                            *)
(***************************************************************************)

MaxLen == 4

\* code units of every kind normalizeText treats differently
RawUnits == {"A", "b", "É", "ç", "U+0301", "1", " ", "\t", "-"}

RawTexts == UNION {[1..k -> RawUnits] : k \in 0..MaxLen}

NormOnly == UNCHANGED <<catVars, simVars, faVars, locVars, goalVars, hostVars, cacheVars>>

NormInit ==
    /\ CatIdle /\ SimIdle /\ FaIdle /\ LocIdle /\ GoalIdle /\ HostIdle /\ CacheIdle
    /\ normInput \in RawTexts
    /\ normOutput = <<>>
    /\ normPass = 0

\* normalizeText(text)
NormalizeText ==
    /\ normPass = 0
    /\ normOutput' = normalizeText(normInput)
    /\ normPass' = 1
    /\ UNCHANGED normInput
    /\ NormOnly

\* normalizeText(normalizeText(text)): the result is normalized again
NormalizeAgain ==
    /\ normPass = 1
    /\ normInput' = normOutput
    /\ normOutput' = normalizeText(normOutput)
    /\ normPass' = 2
    /\ NormOnly

NormNext ==
    \/ NormalizeText
    \/ NormalizeAgain

SpecNormalize == NormInit /\ [][NormNext]_vars

\* C12: normalizeText is idempotent and total: normalizing a result gives
\* that result; a result holds only letters a-z, digits and single spaces,
\* none of them leading or trailing; the empty text gives the empty text.
C12_NormalizeIdempotent ==
    normPass > 0 =>
        /\ normPass = 2 => normOutput = normInput
        /\ \A i \in 1..Len(normOutput) :
              normOutput[i] \in Range(AsciiLower) \cup Digits \cup {" "}
        /\ \A i \in 1..(Len(normOutput) - 1) :
              ~(normOutput[i] = " " /\ normOutput[i + 1] = " ")
        /\ normOutput # <<>> => normOutput[1] # " " /\ normOutput[Len(normOutput)] # " "
        /\ normInput = <<>> => normOutput = <<>>

\* a result of two words has been normalized again
C12_Witness ==
    /\ normPass = 2
    /\ Len(normOutput) = 3
    /\ normOutput[2] = " "

(***************************************************************************)
(* Numbers                                                                 *)
(*                                                                         *)
(* A JavaScript number is the quotient n/d kept as <<n, d>> in lowest      *)
(* terms with d > 0; d = 0 is Infinity (n = 1), -Infinity (n = -1) or NaN  *)
(* (n = 0), which is what the division by zero gives.                      *)
(***************************************************************************)

RECURSIVE gcd(_, _)
gcd(a, b) == IF b = 0 THEN a ELSE gcd(b, a % b)

absInt(i) == IF i < 0 THEN -i ELSE i
signInt(i) == IF i < 0 THEN -1 ELSE IF i > 0 THEN 1 ELSE 0

lowest(n, d, g) == <<n \div g, d \div g>>

\* the number n/d, d >= 0
quotient(n, d) ==
    IF d = 0 THEN <<signInt(n), 0>> ELSE lowest(n, d, gcd(absInt(n), d))

num(i) == <<i, 1>>
NaN == <<0, 0>>
isNaN(a) == a = NaN
isFinite(a) == a[2] > 0

\* a + b
plus(a, b) ==
    IF a[2] = 0 /\ b[2] = 0
    THEN (IF a = b THEN a ELSE NaN)
    ELSE quotient(a[1] * b[2] + b[1] * a[2], a[2] * b[2])

negate(a) == <<-a[1], a[2]>>

\* a - b
minus(a, b) == plus(a, negate(b))

\* a * b
times(a, b) == quotient(a[1] * b[1], a[2] * b[2])

\* a / b
over(a, b) ==
    IF b[1] < 0 THEN quotient(-(a[1] * b[2]), a[2] * (-b[1]))
    ELSE quotient(a[1] * b[2], a[2] * b[1])

\* a < b: false when either is NaN
lessThan(a, b) ==
    /\ ~isNaN(a) /\ ~isNaN(b)
    /\ IF a[2] = 0 /\ b[2] = 0 THEN a[1] < b[1]
       ELSE a[1] * b[2] < b[1] * a[2]

\* a <= b: false when either is NaN
atMost(a, b) == ~isNaN(a) /\ ~isNaN(b) /\ ~lessThan(b, a)

\* Math.min(a, b), Math.max(a, b), Math.abs(a)
mathMin(a, b) == IF isNaN(a) \/ isNaN(b) THEN NaN ELSE IF lessThan(b, a) THEN b ELSE a
mathMax(a, b) == IF isNaN(a) \/ isNaN(b) THEN NaN ELSE IF lessThan(a, b) THEN b ELSE a
mathAbs(a) == <<absInt(a[1]), a[2]>>

\* Math.round(a): the integer nearest to a, a half going up
mathRound(a) ==
    IF a[2] = 0 THEN a ELSE num((2 * a[1] + a[2]) \div (2 * a[2]))

\* array.reduce((sum, x) => sum + x, 0)
RECURSIVE sum(_)
sum(s) == IF s = <<>> THEN num(0) ELSE plus(sum(SubSeq(s, 1, Len(s) - 1)), s[Len(s)])

(***************************************************************************)
(* Dates                                                                   *)
(*                                                                         *)
(* A Date is the number of its day, day 1 being 1 January 2023; the clock  *)
(* and the dates of the records are read at the start of a day.            *)
(***************************************************************************)

\* the months of 2023 and 2024
DaysInMonths == <<31, 28, 31, 30, 31, 30, 31, 31, 30, 31, 30, 31,
                  31, 29, 31, 30, 31, 30, 31, 31, 30, 31, 30, 31>>

\* the days before the first day of month m
DaysBefore[m \in 1..(Len(DaysInMonths) + 1)] ==
    IF m = 1 THEN 0 ELSE DaysBefore[m - 1] + DaysInMonths[m - 1]

Days == 1..DaysBefore[Len(DaysInMonths) + 1]

\* the month a day is in, counted from January 2023
MonthOf ==
    [d \in Days |-> CHOOSE m \in 1..Len(DaysInMonths) :
                       DaysBefore[m] < d /\ d <= DaysBefore[m + 1]]

\* new Date(0), which is before every day of the calendar
Epoch == 0

\* date.getDate(): the day of the month
getDate(d) == d - DaysBefore[MonthOf[d]]

\* date-fns startOfMonth, endOfMonth, startOfYear
startOfMonth(d) == DaysBefore[MonthOf[d]] + 1
endOfMonth(d) == DaysBefore[MonthOf[d] + 1]
startOfYear(d) == DaysBefore[12 * ((MonthOf[d] - 1) \div 12) + 1] + 1

dayInMonth(m, day) ==
    DaysBefore[m] + (IF day > DaysInMonths[m] THEN DaysInMonths[m] ELSE day)

\* date-fns subMonths: the same day of the month n months earlier, or the
\* last day of that month when it is shorter
subMonths(d, n) == dayInMonth(MonthOf[d] - n, getDate(d))

\* date-fns format(date, 'MMM yyyy'): the month of the year and the year
format(d) == <<((MonthOf[d] - 1) % 12) + 1, 2023 + ((MonthOf[d] - 1) \div 12)>>

(***************************************************************************)
(* FinancialAnalytics                                                      *)
(*                                                                         *)
(* A date is its getTime().  The constructor keeps the arrays it is given, *)
(* not copies: this.transactions is the caller's array.                    *)
(***************************************************************************)

MaxTransactions == 2

\* the days on which the methods are called: 31 March and 15 May 2024
NowDays == {456, 501}

\* transactions of 10 May, 20 May, 8 May, 5 May, 10 April, 10 February 2024
\* and 10 October 2023
DatedTransactions == {
    [id |-> "d1", date |-> 496, amount |-> 450, type |-> "expense", category |-> "Alimentação"],
    [id |-> "d2", date |-> 506, amount |-> 100, type |-> "expense", category |-> "Alimentação"],
    [id |-> "d3", date |-> 494, amount |-> 30, type |-> "expense", category |-> "Alimentação"],
    [id |-> "d4", date |-> 491, amount |-> 100, type |-> "income", category |-> "Salário"],
    [id |-> "d5", date |-> 466, amount |-> 440, type |-> "expense", category |-> "Alimentação"],
    [id |-> "d6", date |-> 406, amount |-> 200, type |-> "expense", category |-> "Lazer"],
    [id |-> "d7", date |-> 283, amount |-> 200, type |-> "expense", category |-> "Lazer"] }

\* the arrays a caller may own: stored records, each once
SnapshotTransactions ==
    {ts \in UNION {[1..k -> DatedTransactions] : k \in 0..MaxTransactions} :
        \A i, j \in 1..Len(ts) : i # j => ts[i] # ts[j]}

SnapshotAccounts ==
    { <<>>,
      << [id |-> "a1", name |-> "Carteira", type |-> "checking", balance |-> 100] >>,
      << [id |-> "a1", name |-> "Carteira", type |-> "checking", balance |-> 100],
         [id |-> "a2", name |-> "Banco", type |-> "savings", balance |-> 0],
         [id |-> "a3", name |-> "Corretora", type |-> "investment", balance |-> 50],
         [id |-> "a4", name |-> "Banco 2", type |-> "checking", balance |-> 0] >> }

Budget(category, limit) == [category |-> category, limit |-> limit]

SnapshotBudgets ==
    { <<>>,
      << Budget("Alimentação", 500) >>,
      << Budget("Alimentação", 450) >>,
      << Budget("Alimentação", 600) >>,
      << Budget("Alimentação", 800) >>,
      << Budget("Alimentação", 0) >>,
      << Budget("Alimentação", 500), Budget("Lazer", 1000) >> }

Goal(id, targetAmount, currentAmount, createdAt, deadline) ==
    [id |-> id, title |-> "Meta", targetAmount |-> targetAmount,
     currentAmount |-> currentAmount, createdAt |-> createdAt, deadline |-> deadline]

\* goals created on 1 January or 5 February 2024, due on 24 April, 15 May or
\* 23 August 2024
GoalPool ==
    { Goal("g1", 10000, 10000, 366, 480),
      Goal("g2", 1000, 100, 401, 601),
      Goal("g3", 1000, 500, 401, 601),
      Goal("g4", 1000, 500, 366, 480),
      Goal("g5", 1000, 350, 401, 601),
      Goal("g6", 1000, 1200, 366, 480),
      Goal("g7", 1000, 800, 366, 501) }

SnapshotGoals == { <<>> } \cup { <<goal>> : goal \in GoalPool }

\* transactions.sort((a, b) => b.date.getTime() - a.date.getTime()), which
\* sorts the array it is called on
sortByDateDescending(ts) ==
    stableSort(ts, [i \in 1..Len(ts) |-> [j \in 1..Len(ts) |->
                       ts[j].date - ts[i].date > 0]])

FaOnly == UNCHANGED <<catVars, simVars, normVars, locVars, goalVars, hostVars, cacheVars>>

FaStart(snapshots) ==
    /\ CatIdle /\ SimIdle /\ NormIdle /\ LocIdle /\ GoalIdle /\ HostIdle /\ CacheIdle
    /\ caller \in snapshots
    /\ passed = caller
    /\ analytics = FALSE
    /\ faCall = None
    /\ faResult = <<>>

FaInit ==
    FaStart([transactions : SnapshotTransactions, accounts : SnapshotAccounts,
             budgets : SnapshotBudgets, goals : SnapshotGoals])

\* new FinancialAnalytics(transactions, accounts, budgets, goals)
Construct ==
    /\ analytics = FALSE
    /\ analytics' = TRUE
    /\ caller' = [caller EXCEPT !.transactions = sortByDateDescending(@)]
    /\ UNCHANGED <<passed, faCall, faResult>>
    /\ FaOnly

\* the amounts of the records of ts
amountsOf(ts) == [i \in 1..Len(ts) |-> num(ts[i].amount)]

\* t is an expense of the category dated from monthStart to now
spentOn(t, category, monthStart, now) ==
    /\ t.type = "expense"
    /\ t.category = category
    /\ t.date >= monthStart
    /\ t.date <= now

categoryTransactions(ts, category, monthStart, now) ==
    SelectSeq(ts, LAMBDA t : spentOn(t, category, monthStart, now))

budgetStatus(utilizationPercentage) ==
    IF atMost(utilizationPercentage, num(60)) THEN "safe"
    ELSE IF atMost(utilizationPercentage, num(80)) THEN "warning"
    ELSE IF atMost(utilizationPercentage, num(100)) THEN "critical"
    ELSE "exceeded"

\* an optional number is the sequence of at most one number
projectedOverrun(limit, dailyBudget, averageDailySpending, daysInMonth, daysRemaining) ==
    IF lessThan(dailyBudget, averageDailySpending) /\ daysRemaining > 0
    THEN << minus(times(averageDailySpending, num(daysInMonth)), limit) >>
    ELSE <<>>

budgetEntry(budget, spent, daysInMonth, daysPassed) ==
    [category |-> budget.category,
     budgeted |-> num(budget.limit),
     spent |-> spent,
     remaining |-> minus(num(budget.limit), spent),
     utilizationPercentage |-> times(over(spent, num(budget.limit)), num(100)),
     status |-> budgetStatus(times(over(spent, num(budget.limit)), num(100))),
     projectedOverrun |->
         projectedOverrun(num(budget.limit),
                          over(num(budget.limit), num(daysInMonth)),
                          IF daysPassed > 0 THEN over(spent, num(daysPassed)) ELSE num(0),
                          daysInMonth, daysInMonth - daysPassed),
     daysRemaining |-> daysInMonth - daysPassed,
     dailyBudget |-> over(num(budget.limit), num(daysInMonth)),
     averageDailySpending |->
         IF daysPassed > 0 THEN over(spent, num(daysPassed)) ELSE num(0)]

getBudgetAnalysis(ts, budgets, now) ==
    [i \in 1..Len(budgets) |->
        budgetEntry(budgets[i],
                    sum(amountsOf(categoryTransactions(ts, budgets[i].category,
                                                       startOfMonth(now), now))),
                    getDate(endOfMonth(now)), getDate(now))]

\* analytics.getBudgetAnalysis(), called on the day now
GetBudgetAnalysis ==
    /\ analytics = TRUE
    /\ \E now \in NowDays :
        /\ faCall' = [op |-> "getBudgetAnalysis", now |-> now]
        /\ faResult' = getBudgetAnalysis(caller.transactions, caller.budgets, now)
    /\ UNCHANGED <<caller, passed, analytics>>
    /\ FaOnly

\* the records of ts dated from start to end
datedWithin(ts, start, end) ==
    SelectSeq(ts, LAMBDA t : t.date >= start /\ t.date <= end)

ofType(ts, type) == SelectSeq(ts, LAMBDA t : t.type = type)

expensesOf(ts, category) ==
    SelectSeq(ts, LAMBDA t : t.category = category /\ t.type = "expense")

\* the keys of a Map filled record by record: the categories of ts, each at
\* the place of its first record
RECURSIVE mapKeys(_)
mapKeys(ts) ==
    IF ts = <<>> THEN <<>>
    ELSE IF \E i \in 1..(Len(ts) - 1) : ts[i].category = ts[Len(ts)].category
         THEN mapKeys(SubSeq(ts, 1, Len(ts) - 1))
         ELSE Append(mapKeys(SubSeq(ts, 1, Len(ts) - 1)), ts[Len(ts)].category)

\* patterns.sort((a, b) => b.totalAmount - a.totalAmount)
sortByTotalDescending(patterns) ==
    stableSort(patterns, [i \in 1..Len(patterns) |-> [j \in 1..Len(patterns) |->
                  lessThan(patterns[i].totalAmount, patterns[j].totalAmount)]])

\* array.slice(0, n)
slice(s, n) == SubSeq(s, 1, IF Len(s) < n THEN Len(s) ELSE n)

TopCategories == 5

topCategory(category, total, count, expenses) ==
    [category |-> category,
     totalAmount |-> total,
     transactionCount |-> count,
     averageAmount |-> over(total, num(count)),
     percentage |-> IF lessThan(num(0), expenses)
                    THEN times(over(total, expenses), num(100)) ELSE num(0),
     trend |-> "stable",
     trendPercentage |-> num(0)]

topCategoriesOf(monthTransactions, categories, expenses) ==
    slice(sortByTotalDescending(
              [i \in 1..Len(categories) |->
                  topCategory(categories[i],
                              sum(amountsOf(expensesOf(monthTransactions, categories[i]))),
                              Len(expensesOf(monthTransactions, categories[i])),
                              expenses)]),
          TopCategories)

monthEntry(monthDate, monthTransactions, income, expenses) ==
    [month |-> format(monthDate),
     income |-> income,
     expenses |-> expenses,
     balance |-> minus(income, expenses),
     transactionCount |-> Len(monthTransactions),
     topCategories |->
         topCategoriesOf(monthTransactions,
                         mapKeys(ofType(monthTransactions, "expense")), expenses),
     savingsRate |-> IF lessThan(num(0), income)
                     THEN times(over(minus(income, expenses), income), num(100))
                     ELSE num(0)]

monthAnalysis(monthDate, monthTransactions) ==
    monthEntry(monthDate, monthTransactions,
               sum(amountsOf(ofType(monthTransactions, "income"))),
               sum(amountsOf(ofType(monthTransactions, "expense"))))

\* the analyses are pushed from the current month backwards and reversed
getMonthlyAnalysis(ts, now, months) ==
    [k \in 1..months |->
        monthAnalysis(subMonths(now, months - k),
                      datedWithin(ts, startOfMonth(subMonths(now, months - k)),
                                  endOfMonth(subMonths(now, months - k))))]

\* the numbers of months the analysis is asked for; 12 is the default
MonthCounts == {1, 12}

\* analytics.getMonthlyAnalysis(months), called on the day now
GetMonthlyAnalysis ==
    /\ analytics = TRUE
    /\ \E now \in NowDays, months \in MonthCounts :
        /\ faCall' = [op |-> "getMonthlyAnalysis", now |-> now, months |-> months]
        /\ faResult' = getMonthlyAnalysis(caller.transactions, now, months)
    /\ UNCHANGED <<caller, passed, analytics>>
    /\ FaOnly

\* 30.44 days, and the factors 0.9, 0.7 and 1.1 of the expected progress
AverageMonth == quotient(3044, 100)
OnTrackFactor == quotient(9, 10)
BehindFactor == quotient(7, 10)
AheadFactor == quotient(11, 10)

\* a difference of getTime() values, in days
monthsUntilDeadline(goal, now) ==
    mathMax(num(0), over(num(goal.deadline - now), AverageMonth))

requiredMonthlySaving(remaining, months) ==
    IF lessThan(num(0), months) THEN over(remaining, months) ELSE remaining

expectedProgress(goal, now, months) ==
    IF lessThan(num(0), months)
    THEN times(over(num((goal.deadline - goal.createdAt) - (goal.deadline - now)),
                    num(goal.deadline - goal.createdAt)),
               num(100))
    ELSE num(100)

goalStatusDeadlineFirst(goal, now, progress, expected) ==
    IF now > goal.deadline THEN "at-risk"
    ELSE IF atMost(num(100), progress) THEN "completed"
    ELSE IF lessThan(progress, times(expected, BehindFactor)) THEN "behind"
    ELSE IF lessThan(times(expected, AheadFactor), progress) THEN "ahead"
    ELSE "on-track"

goalStatus(goal, now, progress, expected) ==
    IF atMost(num(100), progress) THEN "completed"
    ELSE IF now > goal.deadline THEN "at-risk"
    ELSE IF lessThan(progress, times(expected, BehindFactor)) THEN "behind"
    ELSE IF lessThan(times(expected, AheadFactor), progress) THEN "ahead"
    ELSE "on-track"

\* the estimated day of completion, absent for a goal that is complete or due
completionDate(now, progress, remaining, months, required) ==
    IF lessThan(progress, num(100)) /\ lessThan(num(0), months)
    THEN << plus(num(now),
                 times(over(remaining, mathMax(required, num(1))), AverageMonth)) >>
    ELSE <<>>

goalEntry(goal, now, progress, remaining, months) ==
    [goalId |-> goal.id,
     title |-> goal.title,
     progress |-> progress,
     targetAmount |-> num(goal.targetAmount),
     currentAmount |-> num(goal.currentAmount),
     monthsToComplete |-> months,
     requiredMonthlySaving |-> requiredMonthlySaving(remaining, months),
     isOnTrack |-> atMost(times(expectedProgress(goal, now, months), OnTrackFactor),
                          progress),
     completionDate |-> completionDate(now, progress, remaining, months,
                                       requiredMonthlySaving(remaining, months)),
     status |-> goalStatus(goal, now, progress, expectedProgress(goal, now, months))]

getGoalAnalysis(goals, now) ==
    [i \in 1..Len(goals) |->
        goalEntry(goals[i], now,
                  times(over(num(goals[i].currentAmount), num(goals[i].targetAmount)),
                        num(100)),
                  minus(num(goals[i].targetAmount), num(goals[i].currentAmount)),
                  monthsUntilDeadline(goals[i], now))]

\* analytics.getGoalAnalysis(), called on the day now
GetGoalAnalysis ==
    /\ analytics = TRUE
    /\ \E now \in NowDays :
        /\ faCall' = [op |-> "getGoalAnalysis", now |-> now]
        /\ faResult' = getGoalAnalysis(caller.goals, now)
    /\ UNCHANGED <<caller, passed, analytics>>
    /\ FaOnly

\* monthlyAnalysis?.savingsRate || 0
savingsRateOf(monthlyAnalysis) ==
    IF monthlyAnalysis = <<>> \/ isNaN(monthlyAnalysis[1].savingsRate)
    THEN num(0)
    ELSE monthlyAnalysis[1].savingsRate

savingsScore(savingsRate) ==
    mathMin(num(25), times(over(savingsRate, num(20)), num(25)))

compliant(entry) == entry.status = "safe" \/ entry.status = "warning"

budgetScore(budgetAnalysis) ==
    IF Len(budgetAnalysis) > 0
    THEN times(over(num(Len(SelectSeq(budgetAnalysis, compliant))),
                    num(Len(budgetAnalysis))),
               num(25))
    ELSE num(20)

cappedProgress(goalAnalysis) ==
    [i \in 1..Len(goalAnalysis) |-> mathMin(num(100), goalAnalysis[i].progress)]

goalScore(goalAnalysis) ==
    IF Len(goalAnalysis) > 0
    THEN times(over(over(sum(cappedProgress(goalAnalysis)), num(Len(goalAnalysis))),
                    num(100)),
               num(25))
    ELSE num(20)

\* new Set(this.accounts.map(a => a.type))
accountTypes(accs) == {accs[i].type : i \in 1..Len(accs)}

diversificationScore(accs) ==
    mathMin(num(25), num(Cardinality(accountTypes(accs)) * 8))

scoreOf(savings, budget, goal, diversification) ==
    [score |-> mathRound(plus(plus(plus(savings, budget), goal), diversification)),
     breakdown |-> [savingsRate |-> mathRound(savings),
                    budgetCompliance |-> mathRound(budget),
                    goalProgress |-> mathRound(goal),
                    diversification |-> mathRound(diversification)]]

getFinancialScore(ts, accs, budgets, goals, now) ==
    scoreOf(savingsScore(savingsRateOf(getMonthlyAnalysis(ts, now, 1))),
            budgetScore(getBudgetAnalysis(ts, budgets, now)),
            goalScore(getGoalAnalysis(goals, now)),
            diversificationScore(accs))

\* analytics.getFinancialScore(), called on the day now
GetFinancialScore ==
    /\ analytics = TRUE
    /\ \E now \in NowDays :
        /\ faCall' = [op |-> "getFinancialScore", now |-> now]
        /\ faResult' = getFinancialScore(caller.transactions, caller.accounts,
                                         caller.budgets, caller.goals, now)
    /\ UNCHANGED <<caller, passed, analytics>>
    /\ FaOnly

Periods == {"month", "quarter", "year", "all"}

\* the start of the current period
periodStart(period, now) ==
    CASE period = "month" -> startOfMonth(now)
      [] period = "quarter" -> startOfMonth(subMonths(now, 3))
      [] period = "year" -> startOfYear(now)
      [] OTHER -> Epoch

getPreviousPeriodStart(currentStart, period) ==
    CASE period = "month" -> startOfMonth(subMonths(currentStart, 1))
      [] period = "quarter" -> subMonths(currentStart, 3)
      [] period = "year" -> subMonths(currentStart, 12)
      [] OTHER -> Epoch

expensesSince(ts, startDate) ==
    SelectSeq(ts, LAMBDA t : t.type = "expense" /\ t.date >= startDate)

previousExpenses(ts, previousPeriodStart, startDate) ==
    SelectSeq(ts, LAMBDA t : /\ t.type = "expense"
                             /\ t.date >= previousPeriodStart
                             /\ t.date < startDate)

trendPercentageOf(total, previousTotal) ==
    IF lessThan(num(0), previousTotal)
    THEN times(over(minus(total, previousTotal), previousTotal), num(100))
    ELSE IF lessThan(num(0), total) THEN num(100) ELSE num(0)

trendOf(trendPercentage) ==
    IF lessThan(mathAbs(trendPercentage), num(5)) THEN "stable"
    ELSE IF lessThan(num(0), trendPercentage) THEN "increasing"
    ELSE "decreasing"

pattern(category, total, count, previousTotal, totalExpenses) ==
    [category |-> category,
     totalAmount |-> total,
     transactionCount |-> count,
     averageAmount |-> IF count > 0 THEN over(total, num(count)) ELSE num(0),
     percentage |-> IF lessThan(num(0), totalExpenses)
                    THEN times(over(total, totalExpenses), num(100)) ELSE num(0),
     trend |-> trendOf(trendPercentageOf(total, previousTotal)),
     trendPercentage |-> mathAbs(trendPercentageOf(total, previousTotal))]

\* one pattern for each key of categoryStats: the categories of the current
\* period, then those of the previous period alone
patternsFor(categories, expenses, previous) ==
    sortByTotalDescending(
        [i \in 1..Len(categories) |->
            pattern(categories[i],
                    sum(amountsOf(expensesOf(expenses, categories[i]))),
                    Len(expensesOf(expenses, categories[i])),
                    sum(amountsOf(expensesOf(previous, categories[i]))),
                    sum(amountsOf(expenses)))])

patternsOf(expenses, previous) ==
    patternsFor(mapKeys(expenses \o previous), expenses, previous)

getSpendingPatterns(ts, period, now) ==
    patternsOf(expensesSince(ts, periodStart(period, now)),
               previousExpenses(ts,
                   getPreviousPeriodStart(periodStart(period, now), period),
                   periodStart(period, now)))

\* analytics.getSpendingPatterns(period), called on the day now
GetSpendingPatterns ==
    /\ analytics = TRUE
    /\ \E now \in NowDays, period \in Periods :
        /\ faCall' = [op |-> "getSpendingPatterns", now |-> now, period |-> period]
        /\ faResult' = getSpendingPatterns(caller.transactions, period, now)
    /\ UNCHANGED <<caller, passed, analytics>>
    /\ FaOnly

FaNext == Construct \/ GetFinancialScore

SpecAnalytics == FaInit /\ [][FaNext]_vars

\* the reports over the transactions and the budgets
ReportInit ==
    FaStart([transactions : SnapshotTransactions, accounts : {<<>>},
             budgets : SnapshotBudgets, goals : {<<>>}])

ReportNext ==
    \/ Construct
    \/ GetBudgetAnalysis
    \/ GetMonthlyAnalysis
    \/ GetSpendingPatterns

SpecReports == ReportInit /\ [][ReportNext]_vars

\* ---------------------------------------------------------------------------
\* FinancialAnalytics.generateInsights
\* ---------------------------------------------------------------------------
\* An insight keeps its type, category, value, trend and priority; subject is
\* the category or goal its title and description name.

spendingInsights(spendingPatterns) ==
    IF spendingPatterns # <<>> /\ spendingPatterns[1].trend = "increasing"
    THEN <<[type |-> "warning", category |-> "spending",
            subject |-> spendingPatterns[1].category,
            value |-> spendingPatterns[1].trendPercentage,
            trend |-> "up", priority |-> 2]>>
    ELSE <<>>

budgetInsight(budget) ==
    [type |-> IF budget.status = "exceeded" THEN "critical" ELSE "warning",
     category |-> "budget",
     subject |-> budget.category,
     value |-> budget.utilizationPercentage,
     trend |-> "up",
     priority |-> IF budget.status = "exceeded" THEN 1 ELSE 2]

criticalBudgets(budgetAnalysis) ==
    SelectSeq(budgetAnalysis, LAMBDA b : b.status = "critical" \/ b.status = "exceeded")

budgetInsights(budgets) == [i \in 1..Len(budgets) |-> budgetInsight(budgets[i])]

goalInsight(goal) ==
    [type |-> IF goal.status = "at-risk" THEN "critical" ELSE "warning",
     category |-> "goals",
     subject |-> goal.goalId,
     value |-> goal.progress,
     trend |-> "down",
     priority |-> IF goal.status = "at-risk" THEN 1 ELSE 2]

behindGoals(goalAnalysis) ==
    SelectSeq(goalAnalysis, LAMBDA g : g.status = "behind" \/ g.status = "at-risk")

goalInsights(behind) == [i \in 1..Len(behind) |-> goalInsight(behind[i])]

savingsInsights(monthlyAnalysis) ==
    IF monthlyAnalysis = <<>> THEN <<>>
    ELSE IF lessThan(monthlyAnalysis[Len(monthlyAnalysis)].savingsRate, num(10))
    THEN <<[type |-> "warning", category |-> "general", subject |-> "savings",
            value |-> monthlyAnalysis[Len(monthlyAnalysis)].savingsRate,
            trend |-> IF lessThan(num(0), monthlyAnalysis[Len(monthlyAnalysis)].savingsRate)
                      THEN "stable" ELSE "down",
            priority |-> 2]>>
    ELSE IF lessThan(num(30), monthlyAnalysis[Len(monthlyAnalysis)].savingsRate)
    THEN <<[type |-> "success", category |-> "general", subject |-> "savings",
            value |-> monthlyAnalysis[Len(monthlyAnalysis)].savingsRate,
            trend |-> "up", priority |-> 3]>>
    ELSE <<>>

\* insights.sort((a, b) => a.priority - b.priority)
sortByPriorityAsPushed(insights) == insights

sortByPriority(insights) ==
    stableSort(insights, [i \in 1..Len(insights) |-> [j \in 1..Len(insights) |->
        insights[i].priority - insights[j].priority > 0]])

InsightMonths == 3

generateInsights(ts, budgets, goals, now) ==
    sortByPriority(
        spendingInsights(getSpendingPatterns(ts, "month", now))
        \o budgetInsights(criticalBudgets(getBudgetAnalysis(ts, budgets, now)))
        \o goalInsights(behindGoals(getGoalAnalysis(goals, now)))
        \o savingsInsights(getMonthlyAnalysis(ts, now, InsightMonths)))

\* analytics.generateInsights(), called on the day now
GenerateInsights ==
    /\ analytics = TRUE
    /\ \E now \in NowDays :
        /\ faCall' = [op |-> "generateInsights", now |-> now]
        /\ faResult' = generateInsights(caller.transactions, caller.budgets,
                                        caller.goals, now)
    /\ UNCHANGED <<caller, passed, analytics>>
    /\ FaOnly

\* budgets whose analyses carry the same and different priorities
InsightBudgets ==
    { <<>>,
      << Budget("Alimentação", 500) >>,
      << Budget("Alimentação", 450), Budget("Lazer", 0) >>,
      << Budget("Lazer", 0), Budget("Alimentação", 0) >>,
      << Budget("Alimentação", 500), Budget("Lazer", 1000) >> }

InsightInit ==
    FaStart([transactions : SnapshotTransactions, accounts : {<<>>},
             budgets : InsightBudgets, goals : SnapshotGoals])

InsightNext ==
    \/ Construct
    \/ GenerateInsights

SpecInsights == InsightInit /\ [][InsightNext]_vars

sectionOf(category) ==
    CASE category = "spending" -> 1
      [] category = "budget" -> 2
      [] category = "goals" -> 3
      [] category = "general" -> 4

\* the place among the caller's budgets of the budget of that category
budgetPlace(budgets, category) ==
    CHOOSE k \in 1..Len(budgets) : budgets[k].category = category

aboutBudget(insights, category) ==
    SelectSeq(insights, LAMBDA x : x.category = "budget" /\ x.subject = category)

oneInsight(insights, type, priority) ==
    Len(insights) = 1 /\ insights[1].type = type /\ insights[1].priority = priority

\* C28: generateInsights returns the insights by priority, 1 first; insights of
\* the same priority come in the order spending, budgets (in the order of the
\* budgets), goals, savings rate; an exceeded budget has one critical insight
\* of priority 1 and a critical budget one warning of priority 2.
C28_InsightsByPriorityInOrder ==
    (faCall.op = "generateInsights") =>
        /\ \A i, j \in 1..Len(faResult) :
              i < j =>
                 /\ faResult[i].priority <= faResult[j].priority
                 /\ faResult[i].priority = faResult[j].priority =>
                       /\ sectionOf(faResult[i].category) <= sectionOf(faResult[j].category)
                       /\ (faResult[i].category = "budget" /\ faResult[j].category = "budget") =>
                             budgetPlace(caller.budgets, faResult[i].subject)
                                < budgetPlace(caller.budgets, faResult[j].subject)
        /\ \A k \in 1..Len(caller.budgets) :
              /\ getBudgetAnalysis(caller.transactions, caller.budgets, faCall.now)[k].status
                    = "exceeded" =>
                    oneInsight(aboutBudget(faResult, caller.budgets[k].category), "critical", 1)
              /\ getBudgetAnalysis(caller.transactions, caller.budgets, faCall.now)[k].status
                    = "critical" =>
                    oneInsight(aboutBudget(faResult, caller.budgets[k].category), "warning", 2)

\* an exceeded budget's insight comes before the spending insight generated
\* first, and a critical budget's warning is among the insights of priority 2
C28_Witness ==
    /\ faCall.op = "generateInsights"
    /\ Len(faResult) >= 3
    /\ faResult[1].category = "budget" /\ faResult[1].priority = 1
    /\ faResult[2].category = "spending"
    /\ faResult[3].category = "budget" /\ faResult[3].type = "warning"

\* the analysis of the goals
GoalInit ==
    FaStart([transactions : {ts \in SnapshotTransactions : Len(ts) <= 1},
             accounts : SnapshotAccounts, budgets : {<<>>}, goals : SnapshotGoals])

GoalNext == Construct \/ GetGoalAnalysis

SpecGoals == GoalInit /\ [][GoalNext]_vars

\* C2: constructing a FinancialAnalytics over a snapshot leaves the caller's
\* transactions, accounts, budgets and goals arrays as they were, the order
\* of their elements included.
C2_CallerArraysUnchanged == caller = passed

\* the expenses of the category dated in the calendar month of the day now
MonthExpenses(category, now) ==
    {i \in 1..Len(caller.transactions) :
        /\ caller.transactions[i].type = "expense"
        /\ caller.transactions[i].category = category
        /\ MonthOf[caller.transactions[i].date] = MonthOf[now]}

\* the sum of the amounts of the transactions at the indices I
RECURSIVE Total(_)
Total(I) ==
    IF I = {} THEN 0
    ELSE LET i == CHOOSE j \in I : TRUE
         IN caller.transactions[i].amount + Total(I \ {i})

utilizationOf(i) == faResult[i].utilizationPercentage

\* C15: each entry of getBudgetAnalysis reports the utilization
\* spent / budgeted * 100, spent being the sum of the expenses of the budget's
\* category dated in the current month, and its status is safe exactly when
\* the utilization is at most 60, warning exactly when it is above 60 and at
\* most 80, critical exactly when it is above 80 and at most 100, exceeded
\* exactly when it is above 100.
C15_BudgetUtilization ==
    faCall.op = "getBudgetAnalysis" =>
        \A i \in 1..Len(faResult) :
            /\ caller.budgets[i].limit > 0 =>
                   utilizationOf(i) =
                       quotient(100 * Total(MonthExpenses(caller.budgets[i].category,
                                                          faCall.now)),
                                caller.budgets[i].limit)
            /\ faResult[i].status = "safe" <=> atMost(utilizationOf(i), num(60))
            /\ faResult[i].status = "warning" <=>
                   lessThan(num(60), utilizationOf(i)) /\ atMost(utilizationOf(i), num(80))
            /\ faResult[i].status = "critical" <=>
                   lessThan(num(80), utilizationOf(i)) /\ atMost(utilizationOf(i), num(100))
            /\ faResult[i].status = "exceeded" <=> lessThan(num(100), utilizationOf(i))

\* an optional number that is absent or finite
finiteIfPresent(optional) == \A i \in 1..Len(optional) : isFinite(optional[i])

budgetEntryFinite(entry) ==
    /\ isFinite(entry.budgeted)
    /\ isFinite(entry.spent)
    /\ isFinite(entry.remaining)
    /\ isFinite(entry.utilizationPercentage)
    /\ isFinite(entry.dailyBudget)
    /\ isFinite(entry.averageDailySpending)
    /\ finiteIfPresent(entry.projectedOverrun)

patternFinite(entry) ==
    /\ isFinite(entry.totalAmount)
    /\ isFinite(entry.averageAmount)
    /\ isFinite(entry.percentage)
    /\ isFinite(entry.trendPercentage)

monthEntryFinite(entry) ==
    /\ isFinite(entry.income)
    /\ isFinite(entry.expenses)
    /\ isFinite(entry.balance)
    /\ isFinite(entry.savingsRate)
    /\ \A i \in 1..Len(entry.topCategories) : patternFinite(entry.topCategories[i])
    /\ entry.income = num(0) => entry.savingsRate = num(0)
    /\ caller.transactions = <<>> =>
           /\ entry.expenses = num(0)
           /\ entry.balance = num(0)
           /\ entry.transactionCount = 0
           /\ entry.topCategories = <<>>

\* C16: no number in an analytics output is NaN or infinite: a month without
\* income has the savings rate 0, a budget whose limit is zero has the
\* utilization 0, and without transactions the patterns are empty and the
\* months are zero.
C16_OutputsAreFinite ==
    /\ faCall.op = "getBudgetAnalysis" =>
           \A i \in 1..Len(faResult) :
               /\ budgetEntryFinite(faResult[i])
               /\ caller.budgets[i].limit = 0 => utilizationOf(i) = num(0)
    /\ faCall.op = "getMonthlyAnalysis" =>
           \A i \in 1..Len(faResult) : monthEntryFinite(faResult[i])
    /\ faCall.op = "getSpendingPatterns" =>
           /\ \A i \in 1..Len(faResult) : patternFinite(faResult[i])
           /\ caller.transactions = <<>> => faResult = <<>>

\* the time from the creation of the goal to now and to its deadline; once
\* the deadline is reached the whole time has passed
Elapsed(goal, now) ==
    IF goal.deadline > now THEN now - goal.createdAt ELSE goal.deadline - goal.createdAt
Allowed(goal) == goal.deadline - goal.createdAt

\* progress below 70% of the expected progress, above 110% of it:
\* current / target against the factor of elapsed / allowed
BelowExpected(goal, now) ==
    10 * goal.currentAmount * Allowed(goal) < 7 * goal.targetAmount * Elapsed(goal, now)
AboveExpected(goal, now) ==
    10 * goal.currentAmount * Allowed(goal) > 11 * goal.targetAmount * Elapsed(goal, now)

FirstApplicable(goal, now) ==
    IF goal.currentAmount >= goal.targetAmount THEN "completed"
    ELSE IF now > goal.deadline THEN "at-risk"
    ELSE IF BelowExpected(goal, now) THEN "behind"
    ELSE IF AboveExpected(goal, now) THEN "ahead"
    ELSE "on-track"

\* C19: getGoalAnalysis gives each goal the status of the first applicable
\* rule among completed (progress at least 100), at-risk (now past the
\* deadline), behind (progress below 70% of the expected progress), ahead
\* (progress above 110% of it) and on-track; a goal whose currentAmount is its
\* targetAmount has progress 100, status completed and no completionDate.
C19_GoalStatusByFirstRule ==
    faCall.op = "getGoalAnalysis" =>
        /\ Len(faResult) = Len(caller.goals)
        /\ \A i \in 1..Len(faResult) :
            /\ faResult[i].status = FirstApplicable(caller.goals[i], faCall.now)
            /\ caller.goals[i].currentAmount = caller.goals[i].targetAmount =>
                   /\ faResult[i].progress = num(100)
                   /\ faResult[i].status = "completed"
                   /\ faResult[i].completionDate = <<>>

\* a goal that is complete was analysed after its deadline
C19_Witness ==
    /\ faCall.op = "getGoalAnalysis"
    /\ Len(faResult) = 1
    /\ caller.goals[1].currentAmount = caller.goals[1].targetAmount
    /\ faCall.now > caller.goals[1].deadline
    /\ faResult[1].status = "completed"

\* the current month's income and expenses of the snapshot
MonthTotal(type, now) ==
    Total({i \in 1..Len(caller.transactions) :
              /\ caller.transactions[i].type = type
              /\ MonthOf[caller.transactions[i].date] = MonthOf[now]})

within(a, low, high) == atMost(num(low), a) /\ atMost(a, num(high))

\* C17: the score of getFinancialScore is between 0 and 100 and each of the
\* four components of its breakdown is between 0 and 25, also when the
\* current month's expenses exceed its income.
C17_ScoreWithinRange ==
    faCall.op = "getFinancialScore" =>
        /\ within(faResult.score, 0, 100)
        /\ within(faResult.breakdown.savingsRate, 0, 25)
        /\ within(faResult.breakdown.budgetCompliance, 0, 25)
        /\ within(faResult.breakdown.goalProgress, 0, 25)
        /\ within(faResult.breakdown.diversification, 0, 25)

\* C18: the score of getFinancialScore is the sum of the four components of
\* the breakdown returned with it, rounded to the nearest integer.
C18_ScoreIsSumOfBreakdown ==
    faCall.op = "getFinancialScore" =>
        faResult.score =
            mathRound(plus(plus(plus(faResult.breakdown.savingsRate,
                                     faResult.breakdown.budgetCompliance),
                                faResult.breakdown.goalProgress),
                           faResult.breakdown.diversification))

\* the months of the current period: from the month the period starts in to
\* the end of the month, or of the year, that holds the day now
ThisMonth == MonthOf[faCall.now]
January == 12 * ((ThisMonth - 1) \div 12) + 1
FirstMonth ==
    CASE faCall.period = "month" -> ThisMonth
      [] faCall.period = "quarter" -> ThisMonth - 3
      [] faCall.period = "year" -> January
LastMonth == IF faCall.period = "year" THEN January + 11 ELSE ThisMonth

\* the expenses of the category dated in the months first to last
ExpensesIn(category, first, last) ==
    {i \in 1..Len(caller.transactions) :
        /\ caller.transactions[i].type = "expense"
        /\ caller.transactions[i].category = category
        /\ MonthOf[caller.transactions[i].date] \in first..last}

\* the total of the category in the current period and in the period of as
\* many months right before it; the period "all" has nothing before it
CurrentTotal(category) ==
    IF faCall.period = "all"
    THEN Total(ExpensesIn(category, 1, Len(DaysInMonths)))
    ELSE Total(ExpensesIn(category, FirstMonth, LastMonth))
PrecedingTotal(category) ==
    IF faCall.period = "all" THEN 0
    ELSE Total(ExpensesIn(category, 2 * FirstMonth - LastMonth - 1, FirstMonth - 1))

ChangePercentage(current, previous) ==
    IF previous > 0 THEN quotient(100 * absInt(current - previous), previous)
    ELSE IF current > 0 THEN num(100) ELSE num(0)

TrendBetween(current, previous) ==
    IF lessThan(ChangePercentage(current, previous), num(5)) THEN "stable"
    ELSE IF current > previous THEN "increasing" ELSE "decreasing"

patternCompares(entry, current, previous) ==
    /\ entry.totalAmount = num(current)
    /\ entry.trendPercentage = ChangePercentage(current, previous)
    /\ entry.trend = TrendBetween(current, previous)

\* C20: for each period, getSpendingPatterns sets the total of each category
\* in the current period against its total in the period of equal length
\* right before it: the trend percentage is |current - previous| / previous
\* * 100, 100 when previous is 0 and current is not, 0 when both are 0; the
\* trend is stable below 5 and otherwise increasing or decreasing by the sign
\* of the change; the patterns are in descending order of total.
C20_TrendAgainstPrecedingPeriod ==
    faCall.op = "getSpendingPatterns" =>
        /\ \A i \in 1..Len(faResult) :
               patternCompares(faResult[i], CurrentTotal(faResult[i].category),
                               PrecedingTotal(faResult[i].category))
        /\ \A i, j \in 1..Len(faResult) :
               i < j => ~lessThan(faResult[i].totalAmount, faResult[j].totalAmount)

(***************************************************************************)
(* FinancialProvider over local storage                                    *)
(*                                                                         *)
(* A handler runs in an event of its own, and the provider renders between *)
(* two events.  A setter called with a function stores the function's      *)
(* value at the stored value of that render (useLocalStorageWithDates).    *)
(***************************************************************************)

MaxAccounts == 2
MaxStored == 2
MaxIds == 5

Names == {"A", "B"}
Balances == {100, 0}
Amounts == {50, 30}
Types == {"income", "expense"}

\* generateId(): an id no object has yet
generateId(n) == n + 1

balanceChange(amount, type, operation) ==
    IF operation = "remove"
    THEN -(IF type = "income" THEN amount ELSE -amount)
    ELSE (IF type = "income" THEN amount ELSE -amount)

updateAccountBalance(accs, accountName, amount, type, operation) ==
    [k \in 1..Len(accs) |->
        IF accs[k].name = accountName
        THEN [accs[k] EXCEPT !.balance = @ + balanceChange(amount, type, operation)]
        ELSE accs[k]]

find(ts, id) == SelectSeq(ts, LAMBDA t : t.id = id)

LocOnly == UNCHANGED <<catVars, simVars, normVars, faVars, goalVars, hostVars, cacheVars>>

LocInit ==
    /\ CatIdle /\ SimIdle /\ NormIdle /\ FaIdle /\ GoalIdle /\ HostIdle /\ CacheIdle
    /\ accounts = <<>>
    /\ transactions = <<>>
    /\ opening = <<>>
    /\ nextId = 0

AddAccount ==
    /\ Len(accounts) < MaxAccounts
    /\ nextId < MaxIds
    /\ \E name \in Names, balance \in Balances :
          /\ accounts' = Append(accounts, [id |-> generateId(nextId), name |-> name,
                                           balance |-> balance])
          /\ opening' = opening @@ (generateId(nextId) :> balance)
    /\ nextId' = generateId(nextId)
    /\ UNCHANGED transactions
    /\ LocOnly

AddTransactionFrom(references) ==
    /\ Len(transactions) < MaxStored
    /\ nextId < MaxIds
    /\ \E account \in references, amount \in Amounts, type \in Types :
          /\ transactions' = Append(transactions,
                                    [id |-> generateId(nextId), account |-> account,
                                     amount |-> amount, type |-> type])
          /\ accounts' = updateAccountBalance(accounts, account, amount, type, "add")
    /\ nextId' = generateId(nextId)
    /\ UNCHANGED opening
    /\ LocOnly

AddTransaction == AddTransactionFrom(Names)

DeleteTransaction ==
    /\ \E id \in 1..nextId :
          IF find(transactions, id) # <<>>
          THEN /\ accounts' = updateAccountBalance(accounts,
                                  find(transactions, id)[1].account,
                                  find(transactions, id)[1].amount,
                                  find(transactions, id)[1].type, "remove")
               /\ transactions' = SelectSeq(transactions, LAMBDA t : t.id # id)
          ELSE UNCHANGED <<accounts, transactions>>
    /\ UNCHANGED <<opening, nextId>>
    /\ LocOnly

LocNext ==
    \/ AddAccount
    \/ AddTransaction
    \/ DeleteTransaction

SpecLocal == LocInit /\ [][LocNext]_vars

\* the sum of the amounts of the transactions of ts, incomes counted up and
\* expenses down, that reference the account of that name
RECURSIVE signedSum(_, _)
signedSum(ts, name) ==
    IF ts = <<>> THEN 0
    ELSE (IF Head(ts).account # name THEN 0
          ELSE IF Head(ts).type = "income" THEN Head(ts).amount ELSE -Head(ts).amount)
         + signedSum(Tail(ts), name)

\* C1: after any sequence of addAccount, addTransaction and deleteTransaction
\* every account's balance is its opening balance plus the amounts of the
\* stored income transactions referencing it minus those of the stored
\* expense transactions referencing it.
C1_BalanceIsOpeningPlusSignedSum ==
    \A k \in 1..Len(accounts) :
        accounts[k].balance =
            opening[accounts[k].id] + signedSum(transactions, accounts[k].name)

\* ---------------------------------------------------------------------------
\* Moving a transaction between accounts and deleting accounts
\* ---------------------------------------------------------------------------
MaxBalance == 130

\* ids are texts in the code; the transaction form puts the id of the chosen
\* account in transaction.account
IdTexts == {ToString(generateId(0))}

\* the value a setter of useLocalStorageWithDates leaves stored after the calls
\* of one render: each call computes its value from the stored value of the
\* render and stores it, so the value of the last call stays
setValue(written) == written[Len(written)]

UpdateTransactionAccountOf(oldAccount, newAccount, amount, type) ==
    /\ accounts' = setValue(<<updateAccountBalance(accounts, oldAccount, amount, type, "remove"),
                             updateAccountBalance(accounts, newAccount, amount, type, "add")>>)
    /\ UNCHANGED <<transactions, opening, nextId>>
    /\ LocOnly

UpdateTransactionAccount ==
    /\ \A k \in 1..Len(accounts) :
          accounts[k].balance <= MaxBalance /\ accounts[k].balance >= -MaxBalance
    /\ \E oldAccount \in Names, newAccount \in Names, amount \in Amounts, type \in Types :
          UpdateTransactionAccountOf(oldAccount, newAccount, amount, type)

DeleteAccountOf(id) ==
    /\ IF SelectSeq(transactions, LAMBDA t : t.account = ToString(id)) # <<>>
       THEN UNCHANGED accounts
       ELSE accounts' = SelectSeq(accounts, LAMBDA account : account.id # id)
    /\ UNCHANGED <<transactions, opening, nextId>>
    /\ LocOnly

DeleteAccount == \E id \in 1..nextId : DeleteAccountOf(id)

MoveNext ==
    \/ AddAccount
    \/ UpdateTransactionAccount

SpecMoves == LocInit /\ [][MoveNext]_vars

AccNext ==
    \/ AddAccount
    \/ AddTransactionFrom(Names \cup IdTexts)
    \/ DeleteAccount

SpecAccounts == LocInit /\ [][AccNext]_vars

named(accs, name) == SelectSeq(accs, LAMBDA account : account.name = name)

RECURSIVE totalBalance(_)
totalBalance(accs) ==
    IF accs = <<>> THEN 0 ELSE Head(accs).balance + totalBalance(Tail(accs))

\* C24: updateTransactionAccount with two distinct existing accounts takes the
\* transaction's signed amount off the old account's balance, puts it on the
\* new account's balance and leaves the sum of all balances as it was.
C24_BothBalanceUpdatesApplied ==
    [][\A oldAccount \in Names, newAccount \in Names, amount \in Amounts, type \in Types :
          (/\ UpdateTransactionAccountOf(oldAccount, newAccount, amount, type)
           /\ oldAccount # newAccount
           /\ Len(named(accounts, oldAccount)) = 1
           /\ Len(named(accounts, newAccount)) = 1) =>
              /\ named(accounts', oldAccount)[1].balance =
                    named(accounts, oldAccount)[1].balance
                        + balanceChange(amount, type, "remove")
              /\ named(accounts', newAccount)[1].balance =
                    named(accounts, newAccount)[1].balance
                        + balanceChange(amount, type, "add")
              /\ totalBalance(accounts') = totalBalance(accounts)]_vars

\* the stored transactions that reference the account of that id the way
\* addTransaction and updateAccountBalance resolve it: by its name
referencing(id) ==
    SelectSeq(transactions,
              LAMBDA t : \E k \in 1..Len(accounts) :
                            accounts[k].id = id /\ accounts[k].name = t.account)

\* C25: deleteAccount leaves the accounts as they are when a stored transaction
\* references the account, and removes the account only when none does.
C25_ReferencedAccountIsKept ==
    [][\A id \in 1..MaxIds :
          DeleteAccountOf(id) =>
              IF referencing(id) # <<>>
              THEN accounts' = accounts
              ELSE accounts' = SelectSeq(accounts, LAMBDA account : account.id # id)]_vars

\* ---------------------------------------------------------------------------
\* The stored goals, in local storage and hosted
\* ---------------------------------------------------------------------------
MaxGoals == 2

\* GoalSchema lets through a positive target and a current amount of zero or more
TargetAmounts == {50, 100}
CurrentAmounts == {0, 50, 100}
AddedAmounts == {50, 100}

\* the goalData GoalForm's handleSubmit hands to addGoal or updateGoal
submittedGoalData(targetAmount, currentAmount) ==
    [targetAmount |-> targetAmount, currentAmount |-> currentAmount,
     completed |-> currentAmount >= targetAmount]

\* { ...goal, ...goalData }
merged(goal, goalData) ==
    [f \in DOMAIN goal |-> IF f \in DOMAIN goalData THEN goalData[f] ELSE goal[f]]

\* the goalData handleAddAmount hands to updateGoal
handleAddAmount(goal, amount) ==
    LET newAmount == IF goal.currentAmount + amount < goal.targetAmount
                     THEN goal.currentAmount + amount ELSE goal.targetAmount
    IN merged(goal, [currentAmount |-> newAmount,
                     completed |-> newAmount >= goal.targetAmount])

\* the FinancialProvider's addGoal and updateGoal
addGoal(stored, goalData, id) == Append(stored, merged([id |-> id] @@ goalData, goalData))

updateGoal(stored, id, goalData) ==
    [k \in 1..Len(stored) |->
        IF stored[k].id = id THEN merged(stored[k], goalData) ELSE stored[k]]

\* the row useFinancialGoals' addGoal inserts, and the state with the row in front
insertedGoal(goalData, id) ==
    [id |-> id, targetAmount |-> goalData.targetAmount,
     currentAmount |-> goalData.currentAmount, completed |-> FALSE]

hostedAddGoal(stored, goalData, id) == <<insertedGoal(goalData, id)>> \o stored

\* useFinancialGoals' updateGoal: the row takes the columns goalData gives, and
\* the goal of the state is replaced by the row
hostedUpdateGoal(stored, id, goalData) ==
    [k \in 1..Len(stored) |->
        IF stored[k].id = id
        THEN merged(stored[k], [f \in DOMAIN goalData \ {"id"} |-> goalData[f]])
        ELSE stored[k]]

GoalStoreOnly ==
    UNCHANGED <<catVars, simVars, normVars, faVars, hostVars, cacheVars,
                accounts, transactions, opening>>

GoalStoreInit ==
    /\ CatIdle /\ SimIdle /\ NormIdle /\ FaIdle /\ LocIdle /\ HostIdle /\ CacheIdle
    /\ localGoals = <<>>
    /\ hostGoals = <<>>

SubmitNewGoal ==
    /\ Len(localGoals) < MaxGoals
    /\ \E targetAmount \in TargetAmounts, currentAmount \in CurrentAmounts :
          localGoals' = addGoal(localGoals,
                                submittedGoalData(targetAmount, currentAmount),
                                generateId(nextId))
    /\ nextId' = generateId(nextId)
    /\ UNCHANGED hostGoals
    /\ GoalStoreOnly

SubmitEditedGoal ==
    /\ \E k \in 1..Len(localGoals), targetAmount \in TargetAmounts,
          currentAmount \in CurrentAmounts :
          localGoals' = updateGoal(localGoals, localGoals[k].id,
                                   submittedGoalData(targetAmount, currentAmount))
    /\ UNCHANGED <<hostGoals, nextId>>
    /\ GoalStoreOnly

AddAmount ==
    /\ \E k \in 1..Len(localGoals), amount \in AddedAmounts :
          /\ ~localGoals[k].completed
          /\ localGoals' = updateGoal(localGoals, localGoals[k].id,
                                      handleAddAmount(localGoals[k], amount))
    /\ UNCHANGED <<hostGoals, nextId>>
    /\ GoalStoreOnly

\* the hosted functions await the backend; with an error they change nothing
HostedSubmitNewGoal ==
    /\ Len(hostGoals) < MaxGoals
    /\ \E targetAmount \in TargetAmounts, currentAmount \in CurrentAmounts, ok \in BOOLEAN :
          IF ok
          THEN hostGoals' = hostedAddGoal(hostGoals,
                                          submittedGoalData(targetAmount, currentAmount),
                                          Len(hostGoals) + 1)
          ELSE UNCHANGED hostGoals
    /\ UNCHANGED <<localGoals, nextId>>
    /\ GoalStoreOnly

HostedSubmitEditedGoal ==
    /\ \E k \in 1..Len(hostGoals), targetAmount \in TargetAmounts,
          currentAmount \in CurrentAmounts, ok \in BOOLEAN :
          IF ok
          THEN hostGoals' = hostedUpdateGoal(hostGoals, hostGoals[k].id,
                                             submittedGoalData(targetAmount, currentAmount))
          ELSE UNCHANGED hostGoals
    /\ UNCHANGED <<localGoals, nextId>>
    /\ GoalStoreOnly

HostedAddAmount ==
    /\ \E k \in 1..Len(hostGoals), amount \in AddedAmounts, ok \in BOOLEAN :
          /\ ~hostGoals[k].completed
          /\ IF ok
             THEN hostGoals' = hostedUpdateGoal(hostGoals, hostGoals[k].id,
                                                handleAddAmount(hostGoals[k], amount))
             ELSE UNCHANGED hostGoals
    /\ UNCHANGED <<localGoals, nextId>>
    /\ GoalStoreOnly

GoalStoreNext ==
    \/ SubmitNewGoal
    \/ SubmitEditedGoal
    \/ AddAmount
    \/ HostedSubmitNewGoal
    \/ HostedSubmitEditedGoal
    \/ HostedAddAmount

SpecGoalStore == GoalStoreInit /\ [][GoalStoreNext]_vars

completedWhenReached(stored) ==
    \A k \in 1..Len(stored) :
        stored[k].completed <=> (stored[k].currentAmount >= stored[k].targetAmount)

\* C26: in both variants every stored goal is completed exactly when its
\* current amount has reached its target amount.
C26_CompletedIffTargetReached ==
    completedWhenReached(localGoals) /\ completedWhenReached(hostGoals)

\* ---------------------------------------------------------------------------
\* The hosted variant: useTransactions and useAccounts over the backend
\* ---------------------------------------------------------------------------
\* One signed-in user with one account.  The backend holds the account's balance
\* and the transactions' rows; the hooks hold their copies in React state.  The
\* functions of the hooks are asynchronous: a call runs to its next await, the
\* backend answers later, and other calls may run in between.  A function sees
\* the state of the render that created it, so a call carries the account's
\* balance as it was when the call began.

MaxCalls == 2
MaxRows == 2

HostBalances == {0, 100}
HostAmounts == {10, 25}

Removed(s, i) == SubSeq(s, 1, i - 1) \o SubSeq(s, i + 1, Len(s))

rowsInserted(log) == Len(SelectSeq(log, LAMBDA e : e.op = "insert"))

HostOnly == UNCHANGED <<catVars, simVars, normVars, faVars, locVars, goalVars, cacheVars>>

\* loadAccounts has fetched the account and no transaction is stored
HostInit ==
    /\ CatIdle /\ SimIdle /\ NormIdle /\ FaIdle /\ LocIdle /\ GoalIdle /\ CacheIdle
    /\ \E balance \in HostBalances :
          /\ dbBalance = balance
          /\ uiBalance = balance
          /\ dbLog = <<[op |-> "load", balance |-> balance]>>
    /\ dbTransactions = <<>>
    /\ uiTransactions = <<>>
    /\ calls = <<>>

\* addTransaction up to its await of the insert; updateAccountBalance is the
\* function of this render, so the accounts it will read are those of now
HostAddTransaction ==
    /\ Len(calls) < MaxCalls
    /\ rowsInserted(dbLog) + Len(calls) < MaxRows
    /\ \E amount \in HostAmounts, type \in Types :
          calls' = Append(calls, [op |-> "addTransaction", pc |-> "insert",
                                  amount |-> amount, type |-> type,
                                  balance |-> uiBalance])
    /\ UNCHANGED <<dbBalance, uiBalance, dbTransactions, uiTransactions, dbLog>>
    /\ HostOnly

\* the balance updateAccountBalance writes: the balance the call saw plus the change
newBalance(c) ==
    c.balance + (IF c.type = "income" THEN c.amount ELSE -c.amount)

\* the insert of a call answers: with an error the call ends in its catch; with
\* the row, the transaction is put in front of the state and updateAccountBalance
\* runs up to its await of the update
InsertAnswers ==
    \E i \in 1..Len(calls), ok \in BOOLEAN :
        /\ calls[i].pc = "insert"
        /\ IF ok
           THEN LET row == [id |-> rowsInserted(dbLog) + 1, amount |-> calls[i].amount,
                            type |-> calls[i].type]
                IN /\ dbTransactions' = Append(dbTransactions, row)
                   /\ dbLog' = Append(dbLog, [op |-> "insert", row |-> row])
                   /\ uiTransactions' = <<row>> \o uiTransactions
                   /\ calls' = [calls EXCEPT ![i] = [@ EXCEPT !.pc = "update"]]
           ELSE /\ calls' = Removed(calls, i)
                /\ UNCHANGED <<dbTransactions, uiTransactions, dbLog>>
        /\ UNCHANGED <<dbBalance, uiBalance>>
        /\ HostOnly

\* the update of the balance answers: with an error updateAccountBalance logs it
\* and returns; otherwise the balance it computed is put in the accounts state
UpdateAnswers ==
    \E i \in 1..Len(calls), ok \in BOOLEAN :
        /\ calls[i].pc = "update"
        /\ IF ok
           THEN /\ dbBalance' = newBalance(calls[i])
                /\ uiBalance' = newBalance(calls[i])
                /\ dbLog' = Append(dbLog, [op |-> "update", balance |-> newBalance(calls[i])])
           ELSE UNCHANGED <<dbBalance, uiBalance, dbLog>>
        /\ calls' = Removed(calls, i)
        /\ UNCHANGED <<dbTransactions, uiTransactions>>
        /\ HostOnly

\* deleteTransaction up to its await of the delete: it looks the transaction up
\* in the transactions of its render and returns when it is not there
HostDeleteTransaction ==
    /\ Len(calls) < MaxCalls
    /\ \E id \in 1..MaxRows :
          IF SelectSeq(uiTransactions, LAMBDA t : t.id = id) # <<>>
          THEN calls' = Append(calls, [op |-> "deleteTransaction", pc |-> "delete",
                                       id |-> id])
          ELSE UNCHANGED calls
    /\ UNCHANGED <<dbBalance, uiBalance, dbTransactions, uiTransactions, dbLog>>
    /\ HostOnly

\* the delete answers: with an error the call ends in its catch; otherwise the
\* transaction leaves the state, and the balance is left as it is
DeleteAnswers ==
    \E i \in 1..Len(calls), ok \in BOOLEAN :
        /\ calls[i].pc = "delete"
        /\ IF ok
           THEN /\ dbTransactions' = SelectSeq(dbTransactions, LAMBDA t : t.id # calls[i].id)
                /\ uiTransactions' = SelectSeq(uiTransactions, LAMBDA t : t.id # calls[i].id)
                /\ dbLog' = Append(dbLog, [op |-> "delete", id |-> calls[i].id])
           ELSE UNCHANGED <<dbTransactions, uiTransactions, dbLog>>
        /\ calls' = Removed(calls, i)
        /\ UNCHANGED <<dbBalance, uiBalance>>
        /\ HostOnly

HostNext ==
    \/ HostAddTransaction
    \/ InsertAnswers
    \/ UpdateAnswers
    \/ HostDeleteTransaction
    \/ DeleteAnswers

SpecHosted == HostInit /\ [][HostNext]_vars

\* the signed amounts of the rows the backend's log shows as inserted
RECURSIVE insertedSum(_)
insertedSum(log) ==
    IF log = <<>> THEN 0
    ELSE (IF Head(log).op # "insert" THEN 0
          ELSE IF Head(log).row.type = "income" THEN Head(log).row.amount
               ELSE -Head(log).row.amount)
         + insertedSum(Tail(log))

NoDeletes == SelectSeq(dbLog, LAMBDA e : e.op = "delete") = <<>>

\* C22: once every addTransaction call has returned, and nothing else was
\* called, the account's balance in the state and in the backend is the balance
\* it had at first plus the signed amounts of the transactions that were
\* inserted, however the calls were interleaved.
C22_NoBalanceUpdateLost ==
    (calls = <<>> /\ NoDeletes) =>
        /\ dbBalance = dbLog[1].balance + insertedSum(dbLog)
        /\ uiBalance = dbLog[1].balance + insertedSum(dbLog)

\* C23: a transaction was added, its balance update went through, and then it
\* was deleted, with nothing else called: the balance is what it was at first.
C23_DeleteReversesAdd ==
    (/\ calls = <<>>
     /\ Len(dbLog) = 4
     /\ dbLog[2].op = "insert" /\ dbLog[3].op = "update" /\ dbLog[4].op = "delete"
     /\ dbLog[4].id = dbLog[2].row.id) =>
        /\ dbBalance = dbLog[1].balance
        /\ uiBalance = dbLog[1].balance

\* ---------------------------------------------------------------------------
\* MemoryCache
\* ---------------------------------------------------------------------------
\* cache is the object: its maxSize and the entries of its Map in the order of
\* the Map, which is the order in which the keys were first put in.  clock is
\* Date.now().  lastSet keeps, for each key, the last set of it and whether the
\* key was deleted or evicted after it.

MaxClock == 3
MaxSize == 2

Keys == {"a", "b"}
Values == {"v1", "v2"}
Ttls == {1, 2}
Null == "null"

CacheOnly == UNCHANGED <<catVars, simVars, normVars, faVars, locVars, goalVars, hostVars>>

CacheInit ==
    /\ CatIdle /\ SimIdle /\ NormIdle /\ FaIdle /\ LocIdle /\ GoalIdle /\ HostIdle
    /\ \E maxSize \in 1..MaxSize : cache = [maxSize |-> maxSize, entries |-> <<>>]
    /\ clock = 0
    /\ cacheCall = None
    /\ cacheResult = None
    /\ lastSet = <<>>

mapKeysOf(entries) == {entries[i].key : i \in 1..Len(entries)}

mapHas(entries, key) == key \in mapKeysOf(entries)

mapGet(entries, key) == entries[CHOOSE i \in 1..Len(entries) : entries[i].key = key]

mapDelete(entries, key) == SelectSeq(entries, LAMBDA e : e.key # key)

\* Map.set: a key of the Map keeps its place, a new key goes last
mapSet(entries, entry) ==
    IF mapHas(entries, entry.key)
    THEN [i \in 1..Len(entries) |->
            IF entries[i].key = entry.key THEN entry ELSE entries[i]]
    ELSE Append(entries, entry)

\* the entries after the eviction at the beginning of set
afterEviction(entries, maxSize) ==
    IF Len(entries) >= maxSize THEN mapDelete(entries, entries[1].key) ELSE entries

evictedKeys(entries, maxSize) ==
    IF Len(entries) >= maxSize /\ entries # <<>> THEN {entries[1].key} ELSE {}

expiredUpTo(entry, now) == now >= entry.expiry

expired(entry, now) == now > entry.expiry

\* lastSet with these keys marked as removed
marked(last, keys) ==
    [k \in DOMAIN last |-> IF k \in keys THEN [last[k] EXCEPT !.removed = TRUE] ELSE last[k]]

SetOf(key, data, ttl) ==
    /\ cache' = [cache EXCEPT !.entries =
                    mapSet(afterEviction(cache.entries, cache.maxSize),
                           [key |-> key, data |-> data, timestamp |-> clock,
                            expiry |-> clock + ttl])]
    /\ cacheCall' = [op |-> "set", key |-> key, now |-> clock]
    /\ cacheResult' = None
    /\ lastSet' = [k \in (DOMAIN lastSet) \cup {key} |->
                     IF k = key
                     THEN [data |-> data, time |-> clock, ttl |-> ttl, removed |-> FALSE]
                     ELSE marked(lastSet, evictedKeys(cache.entries, cache.maxSize))[k]]
    /\ UNCHANGED clock
    /\ CacheOnly

Set == \E key \in Keys, data \in Values, ttl \in Ttls : SetOf(key, data, ttl)

Get ==
    \E key \in Keys :
        /\ cacheCall' = [op |-> "get", key |-> key, now |-> clock]
        /\ IF ~mapHas(cache.entries, key)
           THEN cacheResult' = Null /\ UNCHANGED cache
           ELSE IF expired(mapGet(cache.entries, key), clock)
           THEN /\ cacheResult' = Null
                /\ cache' = [cache EXCEPT !.entries = mapDelete(@, key)]
           ELSE cacheResult' = mapGet(cache.entries, key).data /\ UNCHANGED cache
        /\ UNCHANGED <<clock, lastSet>>
        /\ CacheOnly

Has ==
    \E key \in Keys :
        /\ cacheCall' = [op |-> "has", key |-> key, now |-> clock]
        /\ IF ~mapHas(cache.entries, key)
           THEN cacheResult' = FALSE /\ UNCHANGED cache
           ELSE IF expired(mapGet(cache.entries, key), clock)
           THEN /\ cacheResult' = FALSE
                /\ cache' = [cache EXCEPT !.entries = mapDelete(@, key)]
           ELSE cacheResult' = TRUE /\ UNCHANGED cache
        /\ UNCHANGED <<clock, lastSet>>
        /\ CacheOnly

Delete ==
    \E key \in Keys :
        /\ cache' = [cache EXCEPT !.entries = mapDelete(@, key)]
        /\ cacheCall' = [op |-> "delete", key |-> key, now |-> clock]
        /\ cacheResult' = None
        /\ lastSet' = marked(lastSet, {key})
        /\ UNCHANGED clock
        /\ CacheOnly

Clear ==
    /\ cache' = [cache EXCEPT !.entries = <<>>]
    /\ cacheCall' = [op |-> "clear", key |-> Null, now |-> clock]
    /\ cacheResult' = None
    /\ lastSet' = marked(lastSet, DOMAIN lastSet)
    /\ UNCHANGED clock
    /\ CacheOnly

Cleanup ==
    /\ cache' = [cache EXCEPT !.entries = SelectSeq(@, LAMBDA e : ~expired(e, clock))]
    /\ cacheCall' = [op |-> "cleanup", key |-> Null, now |-> clock]
    /\ cacheResult' = None
    /\ UNCHANGED <<clock, lastSet>>
    /\ CacheOnly

\* time passes between the calls
Tick ==
    /\ clock < MaxClock
    /\ clock' = clock + 1
    /\ UNCHANGED <<cache, cacheCall, cacheResult, lastSet>>
    /\ CacheOnly

CacheNext ==
    \/ Set
    \/ Get
    \/ Has
    \/ Delete
    \/ Clear
    \/ Cleanup
    \/ Tick

SpecCache == CacheInit /\ [][CacheNext]_vars

\* C29: the cache never holds more than maxSize entries; a set of a new key on
\* a full cache evicts the oldest entry and no other; a set of a key that is in
\* the cache leaves every other key in it.
C29_EvictsOnlyForNewKeys ==
    [][\A key \in Keys, data \in Values, ttl \in Ttls :
          SetOf(key, data, ttl) =>
             /\ Len(cache'.entries) <= cache.maxSize
             /\ mapHas(cache.entries, key) =>
                   mapKeysOf(cache'.entries) = mapKeysOf(cache.entries)
             /\ (~mapHas(cache.entries, key) /\ Len(cache.entries) >= cache.maxSize) =>
                   mapKeysOf(cache'.entries) =
                       (mapKeysOf(cache.entries) \ {cache.entries[1].key}) \cup {key}]_vars

\* C30: get(k) returns the value of the last set of k when k was not deleted or
\* evicted since and the time of the get is not past that set's time plus its
\* ttl, and null otherwise; after a get or has of k the cache holds no expired
\* entry of k.
C30_GetReturnsLiveValue ==
    /\ (cacheCall.op = "get") =>
          cacheResult =
             IF /\ cacheCall.key \in DOMAIN lastSet
                /\ ~lastSet[cacheCall.key].removed
                /\ cacheCall.now <= lastSet[cacheCall.key].time + lastSet[cacheCall.key].ttl
             THEN lastSet[cacheCall.key].data
             ELSE Null
    /\ (cacheCall.op \in {"get", "has"}) =>
          \A i \in 1..Len(cache.entries) :
              cache.entries[i].key = cacheCall.key =>
                  cacheCall.now <= cache.entries[i].expiry

\* a get at the very time the entry expires returns the value, and a get of a
\* key whose entry had expired has taken the entry out of the cache
C30_Witness ==
    /\ cacheCall.op = "get"
    /\ cacheCall.key \in DOMAIN lastSet
    /\ ~lastSet[cacheCall.key].removed
    /\ cacheCall.now = lastSet[cacheCall.key].time + lastSet[cacheCall.key].ttl
    /\ cacheResult = lastSet[cacheCall.key].data
    /\ cache.entries # <<>>

====
